---- MODULE Spec2Model ----
(***************************************************************************)
(* Document management system: the tRPC user router (both definitions in   *)
(* src/src/server/api/routers/user.ts; the later one, lines 565-1467, is   *)
(* the one served), the admin router (src/unnamed/part_013), the two       *)
(* download routes and the drizzle schema (src/unnamed/part_011).          *)
(*                                                                         *)
(* Every router procedure is one action; the database tables are sets of   *)
(* rows.  A procedure call is atomic (one request at a time), except in    *)
(* the specifications SpecConcurrent, SpecConcurrentDelete and             *)
(* SpecConcurrentGrant, where a handler is split at an await between its   *)
(* reads and its writes and two requests are in flight.                    *)
(* Row ids come from nanoid(12) and are modelled by counters that only     *)
(* grow, so an id is never handed out twice.  Columns that no procedure    *)
(* reads in a condition or writes after the insert (createdAt,             *)
(* cloudinaryPublicId, grantedBy, the name of a document) are left out of  *)
(* the rows.                                                               *)
(***************************************************************************)
EXTENDS Bags, FiniteSets, Integers, Sequences, TLC

\* ---- bounds ------------------------------------------------------------
MaxFolders == 4
MaxVersions == 3
\* uploads in a run of SpecPolicy, SpecReadOnly, SpecCascade and SpecDownload
MaxPolicyUploads == 2
MaxComments == 1
\* uploads in a run of SpecComments
MaxCommentedUploads == 1
\* uploads and clones in a run of SpecClone and SpecPrivacy, the last of them a clone
MaxCloneUploads == 3
\* uploads in a run of SpecMutations
MaxMutationUploads == 1
\* users created in a run of SpecUsers
MaxUsers == 1

\* ---- the seeded world ----------------------------------------------------
\* users table: one system_admin and two regular users
UserIds == {"admin", "u1", "u2"}
RegularUsers == {"u1", "u2"}
\* inputs: the e-mail addresses a user row may carry
Emails == {"u1@dms", "new1@dms", "new2@dms"}
Roles == {"system_admin", "user"}
\* the users table as seeded: one row per id of UserIds
SeededUsers ==
  {[id |-> "admin", email |-> "admin@dms", role |-> "system_admin"],
   [id |-> "u1", email |-> "u1@dms", role |-> "user"],
   [id |-> "u2", email |-> "u2@dms", role |-> "user"]}
\* the categories the admin has created
Categories == {"c1", "c2"}
\* inputs: a category id that resolves to no row
CategoryArgs == Categories \cup {"c0"}
AccessLevels == {"full", "read"}
\* inputs: folder names and comment texts
FolderNames == {"a", "b"}
Contents == {"x", "y"}

VARIABLES
  folders,          \* dms_folder rows
  documents,        \* dms_document rows
  documentVersions, \* dms_document_version rows
  accessControl,    \* dms_access_control rows, a bag of rows without the id column
  categories,       \* ids of the dms_category rows
  comments,         \* dms_document_comment rows
  nextFolderId,     \* ids handed out so far, per table
  nextDocId,
  nextVersionId,
  nextCommentId,
  users,            \* dms_user rows
  nextUserId,
  calls,            \* per slot, the request between its reads and its writes
  issued,           \* history: per document id, the version numbers ever assigned
  last              \* the last call: procedure, caller, input, outcome

tables == <<folders, documents, documentVersions, accessControl, categories, comments,
            users>>
counters == <<nextFolderId, nextDocId, nextVersionId, nextCommentId, nextUserId>>
vars == <<folders, documents, documentVersions, accessControl, categories, comments,
          users, nextFolderId, nextDocId, nextVersionId, nextCommentId, nextUserId,
          calls, issued, last>>

\* The file URL of an upload.  The procedures only store and copy URLs, they never
\* compare or inspect them, so the uploads are given pairwise distinct URLs: the
\* URL of an upload is the number of the version row it is stored in.
Urls == {nextVersionId}

\* Ids given as input: every id handed out so far (its row may be gone by now)
\* and one id that was never handed out
FolderIdArgs == 1..nextFolderId
DocIdArgs == 1..nextDocId
VersionIdArgs == 1..nextVersionId
CommentIdArgs == 1..nextCommentId

\* ---- helpers ---------------------------------------------------------------
\* Math.max(...numbers, 0)
MaxVersion(S) == IF S = {} THEN 0 ELSE CHOOSE x \in S : \A y \in S : y <= x

\* select().from(documentVersions).where(eq(documentVersions.documentId, d))
VersionsOf(d) == {v \in documentVersions : v.documentId = d}

\* select().from(accessControl).where(and(eq(userId, u), eq(categoryId, c)))
AccessRows(u, c) == {r \in BagToSet(accessControl) : r.userId = u /\ r.categoryId = c}
\* mutant of HasAccess: only a "full" row counts
HasFullAccess(u, c) == \E r \in AccessRows(u, c) : r.accessLevel = "full"

HasAccess(u, c) == AccessRows(u, c) # {}

\* select().from(folders).where(eq(folders.id, f)).limit(1)
FolderRows(f) == {x \in folders : x.id = f}

\* select().from(folders).where(and(eq(id, f), eq(createdBy, user), eq(isPersonal, true)))
OwnPersonalFolder(user, folderId) ==
  {f \in folders : f.id = folderId /\ f.createdBy = user /\ f.isPersonal}

\* select({document, folder}).from(documents).innerJoin(folders, ...).where(eq(documents.id, d))
DocumentData(d) ==
  {<<x, f>> \in documents \X folders : x.id = d /\ f.id = x.folderId}

NoRet == [ids |-> {}, id |-> 0, versionNumber |-> 0]

\* A finished call: the procedure, the branch of the handler that wrote ("-"
\* when the handler has one way to write, or wrote nothing), and what the caller
\* gets back: the TRPCError code or "OK", the returned ids and version number
Call(router, op, branch, code, ret) ==
  [router |-> router, op |-> op, branch |-> branch, code |-> code, ret |-> ret]

\* a call that throws: no further statement of the handler runs
Rejected(router, op, code) ==
  /\ last' = Call(router, op, "-", code, NoRet)
  /\ UNCHANGED <<tables, counters, issued, calls>>

\* ---- document procedures -----------------------------------------------------
\* insert(documents) then insert(documentVersions): the first version, numbered 1
InsertDocumentWithFirstVersion(user, folderId, url) ==
  /\ documents' = documents \cup
       {[id |-> nextDocId, folderId |-> folderId, createdBy |-> user,
         cloudinaryUrl |-> url, currentVersionId |-> nextVersionId]}
  /\ documentVersions' = documentVersions \cup
       {[id |-> nextVersionId, documentId |-> nextDocId, versionNumber |-> 1,
         fileUrl |-> url, uploadedBy |-> user]}
  /\ nextDocId' = nextDocId + 1
  /\ nextVersionId' = nextVersionId + 1
  /\ issued' = [issued EXCEPT ![nextDocId] = {1}]
  /\ UNCHANGED <<users, nextUserId, folders, accessControl, categories, comments,
                 nextFolderId, nextCommentId, calls>>

\* mutant of FolderWriteCheck: a shared folder is writable with "full" access
FolderWriteCheckSharedFull(user, folderId) ==
  LET folder == FolderRows(folderId)
      f == CHOOSE x \in folder : TRUE
  IN  IF folder = {} THEN "NOT_FOUND"
      ELSE IF ~HasAccess(user, f.categoryId) THEN "FORBIDDEN"
      ELSE IF f.isPersonal /\ f.createdBy # user THEN "FORBIDDEN"
      ELSE IF ~f.isPersonal /\ \A r \in AccessRows(user, f.categoryId) :
                                    r.accessLevel # "full" THEN "FORBIDDEN"
      ELSE "OK"

\* the checks of userRouter.createDocument (later definition): "OK" when the
\* caller passes
FolderWriteCheck(user, folderId) ==
  LET folder == FolderRows(folderId)
      f == CHOOSE x \in folder : TRUE
  IN  IF folder = {} THEN "NOT_FOUND"
      ELSE IF ~HasAccess(user, f.categoryId) THEN "FORBIDDEN"
      ELSE IF ~f.isPersonal \/ f.createdBy # user THEN "FORBIDDEN"
      ELSE "OK"

\* userRouter.createDocument (later definition)
UserCreateDocument(user, folderId, url) ==
  LET check == FolderWriteCheck(user, folderId)
  IN  IF check # "OK" THEN Rejected("user", "createDocument", check)
      ELSE /\ nextVersionId <= MaxVersions
           /\ InsertDocumentWithFirstVersion(user, folderId, url)
           /\ last' = Call("user", "createDocument", "-", "OK",
                           [NoRet EXCEPT !.id = nextDocId])

\* adminRouter.createDocument: no check; the folder_id foreign key rejects an
\* unknown folder, the insert throws and nothing is written
AdminCreateDocument(folderId, url) ==
  IF FolderRows(folderId) = {}
        THEN Rejected("admin", "createDocument", "INTERNAL_SERVER_ERROR")
      ELSE /\ nextVersionId <= MaxVersions
           /\ InsertDocumentWithFirstVersion("admin", folderId, url)
           /\ last' = Call("admin", "createDocument", "-", "OK",
                           [NoRet EXCEPT !.id = nextDocId])

\* mutant of NewVersionNumber: count + 1 instead of max + 1
NewVersionNumberByCount(documentId) ==
  Cardinality(VersionsOf(documentId)) + 1

\* maxVersion + 1 over the versions selected for input.documentId
NewVersionNumber(documentId) ==
  MaxVersion({v.versionNumber : v \in VersionsOf(documentId)}) + 1

\* mutant of InsertVersionAndSetCurrent: the update sets currentVersionId alone
InsertVersionKeepUrl(user, documentId, url) ==
  /\ documentVersions' = documentVersions \cup
       {[id |-> nextVersionId, documentId |-> documentId,
         versionNumber |-> NewVersionNumber(documentId),
         fileUrl |-> url, uploadedBy |-> user]}
  /\ documents' = {IF d.id = documentId
                     THEN [d EXCEPT !.currentVersionId = nextVersionId]
                     ELSE d : d \in documents}
  /\ nextVersionId' = nextVersionId + 1
  /\ issued' = [issued EXCEPT ![documentId] = @ \cup {NewVersionNumber(documentId)}]
  /\ UNCHANGED <<users, nextUserId, folders, accessControl, categories, comments,
                 nextFolderId, nextDocId, nextCommentId, calls>>

\* insert(documentVersions) then update(documents).set({currentVersionId, cloudinaryUrl})
InsertVersionAndSetCurrent(user, documentId, url) ==
  /\ documentVersions' = documentVersions \cup
       {[id |-> nextVersionId, documentId |-> documentId,
         versionNumber |-> NewVersionNumber(documentId),
         fileUrl |-> url, uploadedBy |-> user]}
  /\ documents' = {IF d.id = documentId
                     THEN [d EXCEPT !.currentVersionId = nextVersionId,
                                    !.cloudinaryUrl = url]
                     ELSE d : d \in documents}
  /\ nextVersionId' = nextVersionId + 1
  /\ issued' = [issued EXCEPT ![documentId] = @ \cup {NewVersionNumber(documentId)}]
  /\ UNCHANGED <<users, nextUserId, folders, accessControl, categories, comments,
                 nextFolderId, nextDocId, nextCommentId, calls>>

\* mutant of DocumentWriteCheck: the rule of the earlier definition, the creator
\* anywhere, and anyone with "full" access in a shared folder
DocumentWriteCheckSharedFull(user, documentId) ==
  LET data == DocumentData(documentId)
      doc == CHOOSE x \in data : TRUE
  IN  IF data = {} THEN "NOT_FOUND"
      ELSE IF ~HasAccess(user, doc[2].categoryId) THEN "FORBIDDEN"
      ELSE IF ~(\/ doc[1].createdBy = user
                \/ /\ ~doc[2].isPersonal
                   /\ \E r \in AccessRows(user, doc[2].categoryId) :
                        r.accessLevel = "full") THEN "FORBIDDEN"
      ELSE "OK"

\* the ownership rule shared by createDocumentVersion, deleteDocument and
\* deleteDocumentVersion of the user router: "OK" when the caller passes
DocumentWriteCheck(user, documentId) ==
  LET data == DocumentData(documentId)
      doc == CHOOSE x \in data : TRUE
  IN  IF data = {} THEN "NOT_FOUND"
      ELSE IF ~HasAccess(user, doc[2].categoryId) THEN "FORBIDDEN"
      ELSE IF ~(doc[1].createdBy = user /\ doc[2].isPersonal) THEN "FORBIDDEN"
      ELSE "OK"

\* userRouter.createDocumentVersion (later definition)
UserCreateDocumentVersion(user, documentId, url) ==
  LET check == DocumentWriteCheck(user, documentId)
  IN  IF check # "OK" THEN Rejected("user", "createDocumentVersion", check)
      ELSE /\ nextVersionId <= MaxVersions
           /\ InsertVersionAndSetCurrent(user, documentId, url)
           /\ last' = Call("user", "createDocumentVersion", "-", "OK",
                [NoRet EXCEPT !.id = nextVersionId,
                              !.versionNumber = NewVersionNumber(documentId)])

\* adminRouter.createDocumentVersion: no check; the document_id foreign key
\* rejects an unknown document, the insert throws and nothing is written
AdminCreateDocumentVersion(documentId, url) ==
  IF \A d \in documents : d.id # documentId
        THEN Rejected("admin", "createDocumentVersion", "INTERNAL_SERVER_ERROR")
      ELSE /\ nextVersionId <= MaxVersions
           /\ InsertVersionAndSetCurrent("admin", documentId, url)
           /\ last' = Call("admin", "createDocumentVersion", "-", "OK",
                [NoRet EXCEPT !.id = nextVersionId,
                              !.versionNumber = NewVersionNumber(documentId)])

\* ---- createDocumentVersion, statement by statement ------------------------------
\* The handler awaits each statement and opens no transaction: between its
\* select of the existing versions and its insert, other requests run.  A slot
\* holds one request: "read" after the select, with the rows it read, and
\* "done" after the insert, with the response it sent.

\* mutant of SelectedMax: the highest number is taken from the table at the
\* time of the insert
CurrentMax(call) ==
  MaxVersion({v.versionNumber : v \in VersionsOf(call.documentId)})

\* Math.max(...existingVersions.map(v => v.versionNumber), 0) over the rows the
\* request selected
SelectedMax(call) ==
  MaxVersion({v.versionNumber : v \in call.existingVersions})

\* the checks and the select of existingVersions; the admin router has no check
SelectVersions(slot, router, user, documentId, url) ==
  LET check == IF router = "user" THEN DocumentWriteCheck(user, documentId) ELSE "OK"
  IN  /\ calls[slot].state # "read"
      /\ IF check # "OK"
           THEN /\ last' = Call(router, "createDocumentVersion", "-", check, NoRet)
                /\ UNCHANGED <<tables, counters, issued, calls>>
           ELSE /\ calls' = [calls EXCEPT ![slot] =
                      [state |-> "read", router |-> router, user |-> user,
                       documentId |-> documentId, url |-> url,
                       existingVersions |-> VersionsOf(documentId)]]
                /\ UNCHANGED <<tables, counters, issued, last>>

\* insert(documentVersions) with maxVersion + 1, then update(documents); the
\* document_id foreign key rejects the insert when the document is gone
InsertSelectedVersion(slot) ==
  LET call == calls[slot]
      newVersionNumber == SelectedMax(call) + 1
  IN  /\ call.state = "read"
      /\ IF \A d \in documents : d.id # call.documentId
           THEN /\ last' = Call(call.router, "createDocumentVersion", "-",
                                "INTERNAL_SERVER_ERROR", NoRet)
                /\ calls' = [calls EXCEPT ![slot] = [state |-> "idle"]]
                /\ UNCHANGED <<tables, counters, issued>>
           ELSE /\ nextVersionId <= MaxVersions
                /\ documentVersions' = documentVersions \cup
                     {[id |-> nextVersionId, documentId |-> call.documentId,
                       versionNumber |-> newVersionNumber,
                       fileUrl |-> call.url, uploadedBy |-> call.user]}
                /\ documents' = {IF d.id = call.documentId
                                   THEN [d EXCEPT !.currentVersionId = nextVersionId,
                                                  !.cloudinaryUrl = call.url]
                                   ELSE d : d \in documents}
                /\ nextVersionId' = nextVersionId + 1
                /\ issued' = [issued EXCEPT ![call.documentId] = @ \cup {newVersionNumber}]
                /\ calls' = [calls EXCEPT ![slot] =
                      [state |-> "done", documentId |-> call.documentId,
                       existingVersions |-> call.existingVersions,
                       id |-> nextVersionId, versionNumber |-> newVersionNumber]]
                /\ last' = Call(call.router, "createDocumentVersion", "-", "OK",
                     [NoRet EXCEPT !.id = nextVersionId,
                                   !.versionNumber = newVersionNumber])
                /\ UNCHANGED <<users, nextUserId, folders, accessControl, categories, comments,
                               nextFolderId, nextDocId, nextCommentId>>

\* delete(documents).where(eq(documents.id, id)); document_version.document_id
\* and document_comment.document_id are declared onDelete: "cascade"
DeleteDocumentRow(documentId) ==
  /\ documents' = {d \in documents : d.id # documentId}
  /\ documentVersions' = {v \in documentVersions : v.documentId # documentId}
  /\ comments' = {c \in comments : c.documentId # documentId}
  /\ UNCHANGED <<users, folders, accessControl, categories, counters, issued, calls>>

\* userRouter.deleteDocument (later definition)
UserDeleteDocument(user, documentId) ==
  LET check == DocumentWriteCheck(user, documentId)
  IN  IF check # "OK" THEN Rejected("user", "deleteDocument", check)
      ELSE /\ DeleteDocumentRow(documentId)
           /\ last' = Call("user", "deleteDocument", "-", "OK", NoRet)

\* adminRouter.deleteDocument: no check, deleting no row is a success
AdminDeleteDocument(documentId) ==
  /\ DeleteDocumentRow(documentId)
  /\ last' = Call("admin", "deleteDocument", "-", "OK", NoRet)

\* mutant of DeleteVersionCheck: the count is compared with 0
DeleteVersionCheckZero(versionId, documentId) ==
  IF \A v \in documentVersions : v.id # versionId THEN "NOT_FOUND"
  ELSE IF Cardinality(VersionsOf(documentId)) = 0 THEN "BAD_REQUEST"
  ELSE "OK"

\* The checks deleteDocumentVersion makes on the two tables once the caller is
\* let through: the version is looked up by input.versionId alone, the count is
\* taken over the versions of input.documentId
DeleteVersionCheck(versionId, documentId) ==
  IF \A v \in documentVersions : v.id # versionId THEN "NOT_FOUND"
  ELSE IF Cardinality(VersionsOf(documentId)) = 1 THEN "BAD_REQUEST"
  ELSE "OK"

\* delete(documentVersions).where(eq(documentVersions.id, versionId)), then, when
\* repoint holds, the remaining versions of input.documentId ordered by
\* versionNumber and the document updated to the last of them (any of the rows
\* that share the highest number, when several do)
DeleteVersionWrites(router, versionId, documentId, repoint) ==
  LET kept == {v \in documentVersions : v.id # versionId}
      remainingVersions == {v \in kept : v.documentId = documentId}
      top == MaxVersion({v.versionNumber : v \in remainingVersions})
  IN  /\ documentVersions' = kept
      /\ IF repoint /\ remainingVersions # {}
           THEN /\ \E latestVersion \in {v \in remainingVersions : v.versionNumber = top} :
                     documents' = {IF d.id = documentId
                                     THEN [d EXCEPT !.currentVersionId = latestVersion.id,
                                                    !.cloudinaryUrl = latestVersion.fileUrl]
                                     ELSE d : d \in documents}
                /\ last' = Call(router, "deleteDocumentVersion", "repointed", "OK", NoRet)
           ELSE /\ documents' = documents
                /\ last' = Call(router, "deleteDocumentVersion", "kept", "OK", NoRet)
      /\ UNCHANGED <<users, folders, accessControl, categories, comments,
                     counters, issued>>

\* the writes of deleteDocumentVersion made in one step
DeleteVersionAndRepoint(router, versionId, documentId, repoint) ==
  /\ DeleteVersionWrites(router, versionId, documentId, repoint)
  /\ UNCHANGED calls

\* deleteDocumentVersion, statement by statement: a slot is "counted" once the
\* request has selected the document, the version and allVersions and passed
\* its checks, and "deleted" once it has made its writes and answered
CountVersions(slot, router, user, versionId, documentId) ==
  LET access == IF router = "user" THEN DocumentWriteCheck(user, documentId) ELSE "OK"
      check == DeleteVersionCheck(versionId, documentId)
  IN  /\ calls[slot].state # "counted"
      /\ IF access # "OK"
           THEN /\ last' = Call(router, "deleteDocumentVersion", "-", access, NoRet)
                /\ UNCHANGED <<tables, counters, issued, calls>>
         ELSE IF check # "OK"
           THEN /\ last' = Call(router, "deleteDocumentVersion", "-", check, NoRet)
                /\ UNCHANGED <<tables, counters, issued, calls>>
         ELSE /\ calls' = [calls EXCEPT ![slot] =
                    [state |-> "counted", router |-> router,
                     versionId |-> versionId, documentId |-> documentId,
                     allVersions |-> VersionsOf(documentId),
                     wasCurrent |-> \E d \in documents :
                        d.id = documentId /\ d.currentVersionId = versionId]]
              /\ UNCHANGED <<tables, counters, issued, last>>

\* the delete, and the update of the document when the version was its current
\* one at the time the request selected the document
DeleteCountedVersion(slot) ==
  LET call == calls[slot]
  IN  /\ call.state = "counted"
      /\ DeleteVersionWrites(call.router, call.versionId, call.documentId,
                             call.wasCurrent)
      /\ calls' = [calls EXCEPT ![slot] =
            [state |-> "deleted", versionId |-> call.versionId,
             documentId |-> call.documentId, allVersions |-> call.allVersions]]

\* mutant of UserDeleteDocumentVersion: the version is deleted before the
\* only-version check is made
UserDeleteDocumentVersionDeleteFirst(user, versionId, documentId) ==
  LET access == DocumentWriteCheck(user, documentId)
      check == DeleteVersionCheck(versionId, documentId)
      doc == CHOOSE x \in DocumentData(documentId) : TRUE
  IN  IF access # "OK" THEN Rejected("user", "deleteDocumentVersion", access)
      ELSE IF check = "NOT_FOUND" THEN Rejected("user", "deleteDocumentVersion", check)
      ELSE IF check = "BAD_REQUEST"
        THEN /\ documentVersions' = {v \in documentVersions : v.id # versionId}
             /\ last' = Call("user", "deleteDocumentVersion", "-", check, NoRet)
             /\ UNCHANGED <<users, folders, documents, accessControl, categories,
                            comments, counters, issued, calls>>
      ELSE DeleteVersionAndRepoint("user", versionId, documentId,
                                   doc[1].currentVersionId = versionId)

\* userRouter.deleteDocumentVersion (later definition)
UserDeleteDocumentVersion(user, versionId, documentId) ==
  LET access == DocumentWriteCheck(user, documentId)
      check == DeleteVersionCheck(versionId, documentId)
      doc == CHOOSE x \in DocumentData(documentId) : TRUE
  IN  IF access # "OK" THEN Rejected("user", "deleteDocumentVersion", access)
      ELSE IF check # "OK" THEN Rejected("user", "deleteDocumentVersion", check)
      ELSE DeleteVersionAndRepoint("user", versionId, documentId,
                                   doc[1].currentVersionId = versionId)

\* adminRouter.deleteDocumentVersion
AdminDeleteDocumentVersion(versionId, documentId) ==
  LET check == DeleteVersionCheck(versionId, documentId)
      document == {d \in documents : d.id = documentId}
  IN  IF check # "OK" THEN Rejected("admin", "deleteDocumentVersion", check)
      ELSE DeleteVersionAndRepoint("admin", versionId, documentId,
                                   \E d \in document : d.currentVersionId = versionId)

\* mutant of CloneCheck: the grant on the target folder's category is not looked up
CloneCheckNoTargetGrant(user, documentId, targetFolderId) ==
  LET sourceDocumentData == DocumentData(documentId)
      sourceDoc == CHOOSE x \in sourceDocumentData : TRUE
  IN  IF sourceDocumentData = {} THEN "NOT_FOUND"
      ELSE IF ~HasAccess(user, sourceDoc[2].categoryId) THEN "FORBIDDEN"
      ELSE IF OwnPersonalFolder(user, targetFolderId) = {} THEN "FORBIDDEN"
      ELSE "OK"

\* the checks of userRouter.cloneDocument on the source document and the target
\* folder: "OK" when the caller passes
CloneCheck(user, documentId, targetFolderId) ==
  LET sourceDocumentData == DocumentData(documentId)
      sourceDoc == CHOOSE x \in sourceDocumentData : TRUE
      targetFolder == OwnPersonalFolder(user, targetFolderId)
      target == CHOOSE f \in targetFolder : TRUE
  IN  IF sourceDocumentData = {} THEN "NOT_FOUND"
      ELSE IF ~HasAccess(user, sourceDoc[2].categoryId) THEN "FORBIDDEN"
      ELSE IF targetFolder = {} THEN "FORBIDDEN"
      ELSE IF ~HasAccess(user, target.categoryId) THEN "FORBIDDEN"
      ELSE "OK"

\* mutant of CloneSourceVersion: the first version of the source is copied
CloneSourceFirstVersion(document) ==
  {v \in documentVersions : v.documentId = document.id /\ v.versionNumber = 1}

\* select().from(documentVersions).where(eq(id, sourceDoc.document.currentVersionId))
CloneSourceVersion(document) ==
  {v \in documentVersions : v.id = document.currentVersionId}

\* userRouter.cloneDocument
UserCloneDocument(user, documentId, targetFolderId) ==
  LET check == CloneCheck(user, documentId, targetFolderId)
      sourceDoc == CHOOSE x \in DocumentData(documentId) : TRUE
      currentVersion == CloneSourceVersion(sourceDoc[1])
      cur == CHOOSE v \in currentVersion : TRUE
  IN  IF check # "OK"
        THEN Rejected("user", "cloneDocument", check)
      ELSE IF currentVersion = {}
        THEN Rejected("user", "cloneDocument", "NOT_FOUND")
      ELSE /\ nextVersionId <= MaxVersions
           /\ InsertDocumentWithFirstVersion(user, targetFolderId, cur.fileUrl)
           /\ last' = Call("user", "cloneDocument", "-", "OK",
                           [NoRet EXCEPT !.id = nextDocId])

\* ---- the earlier definitions of the user router ----------------------------
\* hasAccess[0]?.accessLevel === "full": the level of the first row selected
\* for the pair, which is its only row when grants do not interleave
FirstGrantIsFull(user, categoryId) ==
  \E first \in AccessRows(user, categoryId) : first.accessLevel = "full"

\* the checks of userRouter.createDocument (earlier definition)
EarlierFolderWriteCheck(user, folderId) ==
  LET folder == FolderRows(folderId)
      f == CHOOSE x \in folder : TRUE
  IN  IF folder = {} THEN "NOT_FOUND"
      ELSE IF ~HasAccess(user, f.categoryId) THEN "FORBIDDEN"
      ELSE IF f.isPersonal /\ f.createdBy # user THEN "FORBIDDEN"
      ELSE IF ~f.isPersonal /\ ~FirstGrantIsFull(user, f.categoryId) THEN "FORBIDDEN"
      ELSE "OK"

\* userRouter.createDocument (earlier definition)
EarlierUserCreateDocument(user, folderId, url) ==
  LET check == EarlierFolderWriteCheck(user, folderId)
  IN  IF check # "OK" THEN Rejected("user", "createDocument", check)
      ELSE /\ nextVersionId <= MaxVersions
           /\ InsertDocumentWithFirstVersion(user, folderId, url)
           /\ last' = Call("user", "createDocument", "-", "OK",
                           [NoRet EXCEPT !.id = nextDocId])

\* mutant of EarlierDocumentWriteCheck: the creator of the document is let
\* through only with "full" access to a shared folder, like anyone else
EarlierDocumentWriteCheckFullOnly(user, documentId) ==
  LET data == DocumentData(documentId)
      doc == CHOOSE x \in data : TRUE
  IN  IF data = {} THEN "NOT_FOUND"
      ELSE IF ~HasAccess(user, doc[2].categoryId) THEN "FORBIDDEN"
      ELSE IF ~(/\ ~doc[2].isPersonal
                /\ FirstGrantIsFull(user, doc[2].categoryId)) THEN "FORBIDDEN"
      ELSE "OK"

\* canUpload / canDelete of the earlier createDocumentVersion, deleteDocument
\* and deleteDocumentVersion
EarlierDocumentWriteCheck(user, documentId) ==
  LET data == DocumentData(documentId)
      doc == CHOOSE x \in data : TRUE
  IN  IF data = {} THEN "NOT_FOUND"
      ELSE IF ~HasAccess(user, doc[2].categoryId) THEN "FORBIDDEN"
      ELSE IF ~(\/ doc[1].createdBy = user
                \/ /\ ~doc[2].isPersonal
                   /\ FirstGrantIsFull(user, doc[2].categoryId)) THEN "FORBIDDEN"
      ELSE "OK"

\* userRouter.createDocumentVersion (earlier definition)
EarlierUserCreateDocumentVersion(user, documentId, url) ==
  LET check == EarlierDocumentWriteCheck(user, documentId)
  IN  IF check # "OK" THEN Rejected("user", "createDocumentVersion", check)
      ELSE /\ nextVersionId <= MaxVersions
           /\ InsertVersionAndSetCurrent(user, documentId, url)
           /\ last' = Call("user", "createDocumentVersion", "-", "OK",
                [NoRet EXCEPT !.id = nextVersionId,
                              !.versionNumber = NewVersionNumber(documentId)])

\* userRouter.deleteDocument (earlier definition)
EarlierUserDeleteDocument(user, documentId) ==
  LET check == EarlierDocumentWriteCheck(user, documentId)
  IN  IF check # "OK" THEN Rejected("user", "deleteDocument", check)
      ELSE /\ DeleteDocumentRow(documentId)
           /\ last' = Call("user", "deleteDocument", "-", "OK", NoRet)

\* userRouter.deleteDocumentVersion (earlier definition)
EarlierUserDeleteDocumentVersion(user, versionId, documentId) ==
  LET access == EarlierDocumentWriteCheck(user, documentId)
      check == DeleteVersionCheck(versionId, documentId)
      doc == CHOOSE x \in DocumentData(documentId) : TRUE
  IN  IF access # "OK" THEN Rejected("user", "deleteDocumentVersion", access)
      ELSE IF check # "OK" THEN Rejected("user", "deleteDocumentVersion", check)
      ELSE DeleteVersionAndRepoint("user", versionId, documentId,
                                   doc[1].currentVersionId = versionId)

\* ---- folder procedures -------------------------------------------------------
\* adminRouter.createFolder: the category_id foreign key rejects an unknown category
AdminCreateFolder(name, categoryId, isPersonal) ==
  IF categoryId \notin categories
        THEN Rejected("admin", "createFolder", "INTERNAL_SERVER_ERROR")
      ELSE /\ nextFolderId <= MaxFolders
           /\ folders' = folders \cup
                {[id |-> nextFolderId, name |-> name, categoryId |-> categoryId,
                  createdBy |-> "admin", isPersonal |-> isPersonal]}
           /\ nextFolderId' = nextFolderId + 1
           /\ last' = Call("admin", "createFolder", "-", "OK",
                           [NoRet EXCEPT !.id = nextFolderId])
           /\ UNCHANGED <<users, nextUserId, documents, documentVersions, accessControl, categories,
                          comments, nextDocId, nextVersionId, nextCommentId,
                          issued, calls>>

\* userRouter.createPersonalFolder
UserCreatePersonalFolder(user, name, categoryId) ==
  IF ~HasAccess(user, categoryId)
        THEN Rejected("user", "createPersonalFolder", "FORBIDDEN")
      ELSE /\ nextFolderId <= MaxFolders
           /\ folders' = folders \cup
                {[id |-> nextFolderId, name |-> name, categoryId |-> categoryId,
                  createdBy |-> user, isPersonal |-> TRUE]}
           /\ nextFolderId' = nextFolderId + 1
           /\ last' = Call("user", "createPersonalFolder", "-", "OK",
                           [NoRet EXCEPT !.id = nextFolderId])
           /\ UNCHANGED <<users, nextUserId, documents, documentVersions, accessControl, categories,
                          comments, nextDocId, nextVersionId, nextCommentId,
                          issued, calls>>

\* mutant of DeleteFolderRows: the comments of the deleted documents stay
DeleteFolderRowsKeepComments(gone) ==
  LET docs == {d \in documents : \E f \in gone : d.folderId = f.id}
  IN  /\ folders' = folders \ gone
      /\ documents' = documents \ docs
      /\ documentVersions' = {v \in documentVersions :
                                \A d \in docs : v.documentId # d.id}
      /\ comments' = comments

\* delete(folders) of the rows in gone: document.folder_id, and through it
\* document_version.document_id and document_comment.document_id, are declared
\* onDelete: "cascade"
DeleteFolderRows(gone) ==
  LET docs == {d \in documents : \E f \in gone : d.folderId = f.id}
  IN  /\ folders' = folders \ gone
      /\ documents' = documents \ docs
      /\ documentVersions' = {v \in documentVersions :
                                \A d \in docs : v.documentId # d.id}
      /\ comments' = {c \in comments : \A d \in docs : c.documentId # d.id}

\* userRouter.updatePersonalFolder
UserUpdatePersonalFolder(user, id, name) ==
  IF OwnPersonalFolder(user, id) = {}
    THEN Rejected("user", "updatePersonalFolder", "FORBIDDEN")
  ELSE /\ folders' = {IF f.id = id THEN [f EXCEPT !.name = name] ELSE f : f \in folders}
       /\ last' = Call("user", "updatePersonalFolder", "-", "OK", NoRet)
       /\ UNCHANGED <<users, documents, documentVersions, accessControl, categories,
                      comments, counters, issued, calls>>

\* userRouter.deletePersonalFolder
UserDeletePersonalFolder(user, id) ==
  IF OwnPersonalFolder(user, id) = {}
    THEN Rejected("user", "deletePersonalFolder", "FORBIDDEN")
  ELSE /\ DeleteFolderRows({f \in folders : f.id = id})
       /\ last' = Call("user", "deletePersonalFolder", "-", "OK", NoRet)
       /\ UNCHANGED <<users, accessControl, categories, counters, issued, calls>>

\* adminRouter.deleteCategory: folder.category_id and access_control.category_id
\* are declared onDelete: "cascade"; deleting no row is a success
AdminDeleteCategory(id) ==
  /\ categories' = categories \ {id}
  /\ DeleteFolderRows({f \in folders : f.categoryId = id})
  /\ accessControl' = [r \in {x \in BagToSet(accessControl) : x.categoryId # id}
                         |-> accessControl[r]]
  /\ last' = Call("admin", "deleteCategory", "-", "OK", NoRet)
  /\ UNCHANGED <<users, counters, issued, calls>>

\* mutant of VisibleFolders: the result is not filtered
AllFoldersOfCategory(user, categoryId) ==
  {x \in folders : x.categoryId = categoryId}

\* the filter of userRouter.getFoldersByCategory
VisibleFolders(user, categoryId) ==
  {f \in {x \in folders : x.categoryId = categoryId} :
     ~f.isPersonal \/ f.createdBy = user}

\* userRouter.getFoldersByCategory
UserGetFoldersByCategory(user, categoryId) ==
  IF ~HasAccess(user, categoryId)
        THEN Rejected("user", "getFoldersByCategory", "FORBIDDEN")
      ELSE /\ last' = Call("user", "getFoldersByCategory", "-", "OK",
                [NoRet EXCEPT !.ids = {f.id : f \in VisibleFolders(user, categoryId)}])
           /\ UNCHANGED <<tables, counters, issued, calls>>

\* mutant of FolderReadCheck: the category grant is not looked up
FolderReadCheckNoGrant(user, folderId) ==
  LET folderData == FolderRows(folderId)
      folder == CHOOSE x \in folderData : TRUE
  IN  IF folderData = {} THEN "NOT_FOUND"
      ELSE IF folder.isPersonal /\ folder.createdBy # user THEN "FORBIDDEN"
      ELSE "OK"

\* the checks of userRouter.getDocumentsByFolder
FolderReadCheck(user, folderId) ==
  LET folderData == FolderRows(folderId)
      folder == CHOOSE x \in folderData : TRUE
  IN  IF folderData = {} THEN "NOT_FOUND"
      ELSE IF ~HasAccess(user, folder.categoryId) THEN "FORBIDDEN"
      ELSE IF folder.isPersonal /\ folder.createdBy # user THEN "FORBIDDEN"
      ELSE "OK"

\* userRouter.getDocumentsByFolder
UserGetDocumentsByFolder(user, folderId) ==
  LET check == FolderReadCheck(user, folderId)
  IN  IF check # "OK" THEN Rejected("user", "getDocumentsByFolder", check)
      ELSE /\ last' = Call("user", "getDocumentsByFolder", "-", "OK",
                [NoRet EXCEPT !.ids = {d.id : d \in {x \in documents : x.folderId = folderId}}])
           /\ UNCHANGED <<tables, counters, issued, calls>>

\* userRouter.getDocumentVersions (later definition): the document must exist
\* and the caller hold a grant on its folder's category; the rows returned carry
\* the file URLs
UserGetDocumentVersions(user, documentId) ==
  LET documentData == DocumentData(documentId)
      doc == CHOOSE x \in documentData : TRUE
  IN  IF documentData = {} THEN Rejected("user", "getDocumentVersions", "NOT_FOUND")
      ELSE IF ~HasAccess(user, doc[2].categoryId)
        THEN Rejected("user", "getDocumentVersions", "FORBIDDEN")
      ELSE /\ last' = Call("user", "getDocumentVersions", "-", "OK",
                [NoRet EXCEPT !.ids = {v.id : v \in VersionsOf(documentId)}])
           /\ UNCHANGED <<tables, counters, issued, calls>>

\* ---- comment procedures --------------------------------------------------------
\* the checks of userRouter.getDocumentComments and createComment
DocumentReadCheck(user, documentId) ==
  LET documentData == DocumentData(documentId)
      doc == CHOOSE x \in documentData : TRUE
  IN  IF documentData = {} THEN "NOT_FOUND"
      ELSE IF ~HasAccess(user, doc[2].categoryId) THEN "FORBIDDEN"
      ELSE IF doc[2].isPersonal /\ doc[2].createdBy # user THEN "FORBIDDEN"
      ELSE "OK"

\* userRouter.getDocumentComments
UserGetDocumentComments(user, documentId) ==
  LET check == DocumentReadCheck(user, documentId)
  IN  IF check # "OK" THEN Rejected("user", "getDocumentComments", check)
      ELSE /\ last' = Call("user", "getDocumentComments", "-", "OK",
                [NoRet EXCEPT !.ids = {c.id : c \in {x \in comments :
                                                       x.documentId = documentId}}])
           /\ UNCHANGED <<tables, counters, issued, calls>>

\* parentCommentId: input.parentCommentId || null
NoParent == 0
\* inputs: the parentCommentId of createComment: none, the id of a comment
\* created so far, or a string that is the id of no comment
ParentArgs == {NoParent} \cup (1..(nextCommentId - 1)) \cup {MaxComments + 2}

\* userRouter.createComment; isEdited takes the column default, and
\* parent_comment_id is stored as given: the column has no foreign key
UserCreateReply(user, documentId, content, parentCommentId) ==
  LET check == DocumentReadCheck(user, documentId)
  IN  IF check # "OK" THEN Rejected("user", "createComment", check)
      ELSE /\ nextCommentId <= MaxComments
           /\ comments' = comments \cup
                {[id |-> nextCommentId, documentId |-> documentId,
                  parentCommentId |-> parentCommentId,
                  authorId |-> user, content |-> content, isEdited |-> FALSE]}
           /\ nextCommentId' = nextCommentId + 1
           /\ last' = Call("user", "createComment", "-", "OK",
                           [NoRet EXCEPT !.id = nextCommentId])
           /\ UNCHANGED <<users, nextUserId, folders, documents, documentVersions,
                          accessControl, categories, nextFolderId, nextDocId,
                          nextVersionId, issued, calls>>

\* userRouter.createComment without a parentCommentId
UserCreateComment(user, documentId, content) ==
  UserCreateReply(user, documentId, content, NoParent)

\* mutant of OwnComment: the author is not compared
CommentOfAnyAuthor(user, commentId) ==
  {c \in comments : c.id = commentId}

\* select().from(documentComments).where(and(eq(id, commentId), eq(authorId, user)))
OwnComment(user, commentId) ==
  {c \in comments : c.id = commentId /\ c.authorId = user}

\* userRouter.updateComment
UserUpdateComment(user, commentId, content) ==
  IF OwnComment(user, commentId) = {}
    THEN Rejected("user", "updateComment", "FORBIDDEN")
  ELSE /\ comments' = {IF c.id = commentId
                         THEN [c EXCEPT !.content = content, !.isEdited = TRUE]
                         ELSE c : c \in comments}
       /\ last' = Call("user", "updateComment", "-", "OK", NoRet)
       /\ UNCHANGED <<users, folders, documents, documentVersions, accessControl,
                      categories, counters, issued, calls>>

\* userRouter.deleteComment
UserDeleteComment(user, commentId) ==
  IF OwnComment(user, commentId) = {}
    THEN Rejected("user", "deleteComment", "FORBIDDEN")
  ELSE /\ comments' = {c \in comments : c.id # commentId}
       /\ last' = Call("user", "deleteComment", "-", "OK", NoRet)
       /\ UNCHANGED <<users, folders, documents, documentVersions, accessControl,
                      categories, counters, issued, calls>>

\* ---- the secure download endpoint -------------------------------------------------
\* getServerSession: no session, or the session of a user
Sessions == UserIds \cup {"anonymous"}
\* session.user.role
Role(user) == IF user = "admin" THEN "system_admin" ELSE "user"
Methods == {"GET", "HEAD"}
\* what the storage answers to the fetch: the file, an error status, no bytes
FetchStatuses == {"200", "404", "500"}

\* select({version, document, folder}).from(documentVersions).innerJoin(documents)
\* .innerJoin(folders).where(eq(documentVersions.id, versionId))
VersionData(versionId) ==
  {<<v, d, f>> \in documentVersions \X documents \X folders :
     v.id = versionId /\ d.id = v.documentId /\ f.id = d.folderId}

\* mutant of SecureDownloadCheck: a personal folder is not compared with the caller
SecureDownloadCheckNoOwner(session, hasVersionId, versionId) ==
  LET versionData == VersionData(versionId)
      folder == (CHOOSE x \in versionData : TRUE)[3]
  IN  IF session = "anonymous" THEN "401"
      ELSE IF ~hasVersionId THEN "400"
      ELSE IF versionData = {} THEN "404"
      ELSE IF Role(session) # "system_admin" /\ ~HasAccess(session, folder.categoryId)
        THEN "403"
      ELSE "pass"

\* the checks of handleRequest, in the order of the code: the status it answers
\* with, or "pass"
SecureDownloadCheck(session, hasVersionId, versionId) ==
  LET versionData == VersionData(versionId)
      folder == (CHOOSE x \in versionData : TRUE)[3]
  IN  IF session = "anonymous" THEN "401"
      ELSE IF ~hasVersionId THEN "400"
      ELSE IF versionData = {} THEN "404"
      ELSE IF Role(session) # "system_admin" /\ ~HasAccess(session, folder.categoryId)
        THEN "403"
      ELSE IF /\ Role(session) # "system_admin"
              /\ folder.isPersonal /\ folder.createdBy # session
        THEN "403"
      ELSE "pass"

\* handleRequest: after the checks a HEAD request is answered without a fetch, a
\* GET request fetches the file and answers with what the storage gave
SecureDownload(session, hasVersionId, versionId, method) ==
  LET check == SecureDownloadCheck(session, hasVersionId, versionId)
  IN  /\ IF check # "pass"
           THEN last' = Call("download-secure", method, "-", check, NoRet)
         ELSE IF method = "HEAD"
           THEN last' = Call("download-secure", method, "-", "200", NoRet)
         ELSE \E status \in FetchStatuses :
                last' = Call("download-secure", method, "fetched", status, NoRet)
      /\ UNCHANGED <<tables, counters, issued, calls>>

\* ---- the download endpoint -------------------------------------------------------
\* a URL that is not on res.cloudinary.com; every stored fileUrl is
NoStorageUrl == 0
\* inputs: the url parameter
UrlArgs == {v.fileUrl : v \in documentVersions} \cup {NoStorageUrl}

\* /api/download handleRequest: a session, a url parameter, and a url on the
\* storage host; then HEAD answers without a fetch and GET fetches the url
Download(session, hasUrl, url, method) ==
  /\ IF session = "anonymous"
        THEN last' = Call("download", method, "-", "401", NoRet)
      ELSE IF ~hasUrl \/ url = NoStorageUrl
        THEN last' = Call("download", method, "-", "400", NoRet)
      ELSE IF method = "HEAD"
        THEN last' = Call("download", method, "-", "200", NoRet)
      ELSE \E status \in FetchStatuses :
             last' = Call("download", method, "fetched", status, NoRet)
  /\ UNCHANGED <<tables, counters, issued, calls>>

\* ---- users ---------------------------------------------------------------------
UserExists(id) == \E u \in users : u.id = id

\* generateId() for a user row
NewUserId(n) == "n" \o ToString(n)
UserIdArgs == UserIds \cup {NewUserId(n) : n \in 1..nextUserId}

\* mutant of EmailIsFree: dms_user.email carries no unique constraint
EmailAlwaysFree(email) == TRUE

\* email: varchar("email").notNull().unique()
EmailIsFree(email) == \A u \in users : u.email # email

\* adminRouter.createUser: any failure of the insert is answered with CONFLICT
AdminCreateUser(email, role) ==
  IF ~EmailIsFree(email) THEN Rejected("admin", "createUser", "CONFLICT")
  ELSE /\ nextUserId <= MaxUsers
       /\ users' = users \cup
            {[id |-> NewUserId(nextUserId), email |-> email, role |-> role]}
       /\ nextUserId' = nextUserId + 1
       /\ last' = Call("admin", "createUser", "-", "OK", NoRet)
       /\ UNCHANGED <<folders, documents, documentVersions, accessControl, categories,
                      comments, nextFolderId, nextDocId, nextVersionId, nextCommentId,
                      issued, calls>>

\* the rows whose foreign key to dms_user has no onDelete action: created_by of
\* folder and document, uploaded_by of document_version (categories and grants
\* are made by the admin "admin")
ReferencesUser(id) ==
  \/ id = "admin"
  \/ \E f \in folders : f.createdBy = id
  \/ \E d \in documents : d.createdBy = id
  \/ \E v \in documentVersions : v.uploadedBy = id

\* adminRouter.deleteUser: access_control.user_id and document_comment.author_id
\* cascade; a row that still references the user makes the delete fail
AdminDeleteUser(caller, id) ==
  IF id = caller THEN Rejected("admin", "deleteUser", "BAD_REQUEST")
  ELSE IF UserExists(id) /\ ReferencesUser(id)
    THEN Rejected("admin", "deleteUser", "INTERNAL_SERVER_ERROR")
  ELSE /\ users' = {u \in users : u.id # id}
       /\ accessControl' = [r \in {a \in BagToSet(accessControl) : a.userId # id}
                              |-> accessControl[r]]
       /\ comments' = {c \in comments : c.authorId # id}
       /\ last' = Call("admin", "deleteUser", "-", "OK", NoRet)
       /\ UNCHANGED <<folders, documents, documentVersions, categories, counters,
                      issued, calls>>

\* ---- access control ------------------------------------------------------------
AccessRow(userId, categoryId, level) ==
  [userId |-> userId, categoryId |-> categoryId, accessLevel |-> level]

\* mutant of GrantAccess: a row is inserted whether or not the pair has one
GrantAccessAlwaysInsert(userId, categoryId, level) ==
  IF ~UserExists(userId) \/ categoryId \notin categories
    THEN Rejected("admin", "grantAccess", "INTERNAL_SERVER_ERROR")
  ELSE /\ accessControl' = accessControl (+)
                             SetToBag({AccessRow(userId, categoryId, level)})
       /\ last' = Call("admin", "grantAccess", "inserted", "OK", NoRet)
       /\ UNCHANGED <<users, folders, documents, documentVersions, categories, comments,
                      counters, issued, calls>>

\* adminRouter.grantAccess: update the first row found for the pair, else insert;
\* the user_id and category_id foreign keys reject unknown ids on insert
GrantAccess(userId, categoryId, level) ==
  LET existing == AccessRows(userId, categoryId)
  IN  IF existing # {}
        THEN /\ \E first \in existing :
                  accessControl' = (accessControl (-) SetToBag({first}))
                                   (+) SetToBag({AccessRow(userId, categoryId, level)})
             /\ last' = Call("admin", "grantAccess", "updated", "OK", NoRet)
             /\ UNCHANGED <<users, folders, documents, documentVersions, categories, comments,
                      counters, issued, calls>>
      ELSE IF ~UserExists(userId) \/ categoryId \notin categories
        THEN Rejected("admin", "grantAccess", "INTERNAL_SERVER_ERROR")
      ELSE /\ accessControl' = accessControl (+)
                                 SetToBag({AccessRow(userId, categoryId, level)})
           /\ last' = Call("admin", "grantAccess", "inserted", "OK", NoRet)
           /\ UNCHANGED <<users, folders, documents, documentVersions, categories, comments,
                      counters, issued, calls>>

\* grantAccess, statement by statement: a slot is "selected" once the request
\* has run its select of the pair's rows, and "granted" once it has written
SelectExisting(slot, userId, categoryId, level) ==
  /\ calls[slot].state # "selected"
  /\ calls' = [calls EXCEPT ![slot] =
        [state |-> "selected", userId |-> userId, categoryId |-> categoryId,
         accessLevel |-> level, existing |-> AccessRows(userId, categoryId)]]
  /\ UNCHANGED <<tables, counters, issued, last>>

\* existing.length > 0 ? update where id = existing[0].id : insert.  The row
\* existing[0] is one of the rows selected; by now it may carry another level or
\* be gone, and then the update changes a row of the pair or none.
WriteGrant(slot) ==
  LET call == calls[slot]
      row == AccessRow(call.userId, call.categoryId, call.accessLevel)
      now == AccessRows(call.userId, call.categoryId)
  IN  /\ call.state = "selected"
      /\ calls' = [calls EXCEPT ![slot] =
            [state |-> "granted", userId |-> call.userId,
             categoryId |-> call.categoryId, existing |-> call.existing]]
      /\ IF call.existing # {}
           THEN /\ \/ \E first \in now :
                         accessControl' = (accessControl (-) SetToBag({first}))
                                          (+) SetToBag({row})
                   \/ now = {} /\ accessControl' = accessControl
                /\ last' = Call("admin", "grantAccess", "updated", "OK", NoRet)
                /\ UNCHANGED <<users, folders, documents, documentVersions, categories,
                               comments, counters, issued>>
         ELSE IF ~UserExists(call.userId) \/ call.categoryId \notin categories
           THEN /\ last' = Call("admin", "grantAccess", "-", "INTERNAL_SERVER_ERROR",
                                NoRet)
                /\ UNCHANGED <<tables, counters, issued>>
         ELSE /\ accessControl' = accessControl (+) SetToBag({row})
              /\ last' = Call("admin", "grantAccess", "inserted", "OK", NoRet)
              /\ UNCHANGED <<users, folders, documents, documentVersions, categories,
                             comments, counters, issued>>

\* adminRouter.revokeAccess: delete every row of the pair
RevokeAccess(userId, categoryId) ==
  /\ accessControl' = [r \in BagToSet(accessControl) \ AccessRows(userId, categoryId)
                         |-> accessControl[r]]
  /\ last' = Call("admin", "revokeAccess", "-", "OK", NoRet)
  /\ UNCHANGED <<users, folders, documents, documentVersions, categories, comments,
                      counters, issued, calls>>

\* ---- specifications ----------------------------------------------------------
NoCall == Call("-", "-", "-", "-", NoRet)

\* the requests a client may have in flight at once
Slots == {"p", "q"}
\* no request is between its reads and its writes
NoCalls == [s \in Slots |-> [state |-> "idle"]]

\* The database once the admin has granted u1 access to category c1 and u1 has
\* created a personal folder (folder 1) there; no document exists yet.
Init ==
  /\ folders = {[id |-> 1, name |-> "a", categoryId |-> "c1", createdBy |-> "u1",
                 isPersonal |-> TRUE]}
  /\ documents = {}
  /\ documentVersions = {}
  /\ accessControl = SetToBag({AccessRow("u1", "c1", "full")})
  /\ categories = Categories
  /\ comments = {}
  /\ nextFolderId = 2
  /\ nextDocId = 1
  /\ nextVersionId = 1
  /\ nextCommentId = 1
  /\ calls = NoCalls
  /\ users = SeededUsers
  /\ nextUserId = 1
  /\ issued = [d \in 1..(MaxVersions + 1) |-> {}]
  /\ last = NoCall

\* the regular user whose calls Spec follows: the owner of folder 1
Owners == {"u1"}

\* document and version procedures of both routers, called with any ids
Next ==
  \/ \E u \in Owners, f \in FolderIdArgs, url \in Urls : UserCreateDocument(u, f, url)
  \/ \E f \in FolderIdArgs, url \in Urls : AdminCreateDocument(f, url)
  \/ \E u \in Owners, d \in DocIdArgs, url \in Urls : UserCreateDocumentVersion(u, d, url)
  \/ \E d \in DocIdArgs, url \in Urls : AdminCreateDocumentVersion(d, url)
  \/ \E u \in Owners, d \in DocIdArgs : UserDeleteDocument(u, d)
  \/ \E d \in DocIdArgs : AdminDeleteDocument(d)
  \/ \E u \in Owners, v \in VersionIdArgs, d \in DocIdArgs :
       UserDeleteDocumentVersion(u, v, d)
  \/ \E v \in VersionIdArgs, d \in DocIdArgs : AdminDeleteDocumentVersion(v, d)
  \/ \E u \in Owners, d \in DocIdArgs, f \in FolderIdArgs : UserCloneDocument(u, d, f)

Spec == Init /\ [][Next]_vars

\* The same procedures when deleteDocumentVersion is only called the way
\* DocumentVersionManager calls it: with a version row's id and that row's own
\* documentId.
NextSameDocument ==
  \/ \E u \in Owners, f \in FolderIdArgs, url \in Urls : UserCreateDocument(u, f, url)
  \/ \E f \in FolderIdArgs, url \in Urls : AdminCreateDocument(f, url)
  \/ \E u \in Owners, d \in DocIdArgs, url \in Urls : UserCreateDocumentVersion(u, d, url)
  \/ \E d \in DocIdArgs, url \in Urls : AdminCreateDocumentVersion(d, url)
  \/ \E u \in Owners, v \in documentVersions :
       UserDeleteDocumentVersion(u, v.id, v.documentId)
  \/ \E v \in documentVersions : AdminDeleteDocumentVersion(v.id, v.documentId)

SpecSameDocument == Init /\ [][NextSameDocument]_vars

\* a folder row
Folder(id, categoryId, createdBy, isPersonal) ==
  [id |-> id, name |-> "a", categoryId |-> categoryId, createdBy |-> createdBy,
   isPersonal |-> isPersonal]

\* the folders InitAccess starts from
SeededFolders ==
  {Folder(1, "c1", "u1", TRUE), Folder(2, "c1", "admin", FALSE),
   Folder(3, "c1", "u2", TRUE), Folder(4, "c2", "admin", FALSE)}

\* The database once the admin has created the shared folders 2 (in c1) and 4
\* (in c2), u1 and u2 have created the personal folders 1 and 3 in c1, and the
\* admin has then revoked every grant; no document exists yet.
InitAccess ==
  /\ folders = SeededFolders
  /\ documents = {}
  /\ documentVersions = {}
  /\ accessControl = EmptyBag
  /\ categories = Categories
  /\ comments = {}
  /\ nextFolderId = 5
  /\ nextDocId = 1
  /\ nextVersionId = 1
  /\ nextCommentId = 1
  /\ calls = NoCalls
  /\ users = SeededUsers
  /\ nextUserId = 1
  /\ issued = [d \in 1..(MaxVersions + 1) |-> {}]
  /\ last = NoCall

\* grants and revocations, and the reads and uploads of regular users they guard
NextAccess ==
  \/ \E u \in RegularUsers, c \in CategoryArgs, l \in AccessLevels : GrantAccess(u, c, l)
  \/ \E u \in RegularUsers, c \in CategoryArgs : RevokeAccess(u, c)
  \/ \E u \in RegularUsers, c \in CategoryArgs : UserGetFoldersByCategory(u, c)
  \/ \E u \in RegularUsers, f \in FolderIdArgs : UserGetDocumentsByFolder(u, f)
  \/ \E u \in RegularUsers, f \in FolderIdArgs, url \in Urls : UserCreateDocument(u, f, url)

SpecAccess == InitAccess /\ [][NextAccess]_vars

\* The database once the admin has created the shared folder 2, u1 and u2 have
\* created the personal folders 1 and 3, all in c1, and the admin has revoked
\* every grant.
InitPolicy ==
  /\ folders = {Folder(1, "c1", "u1", TRUE), Folder(2, "c1", "admin", FALSE),
                Folder(3, "c1", "u2", TRUE)}
  /\ documents = {}
  /\ documentVersions = {}
  /\ accessControl = EmptyBag
  /\ categories = Categories
  /\ comments = {}
  /\ nextFolderId = 4
  /\ nextDocId = 1
  /\ nextVersionId = 1
  /\ nextCommentId = 1
  /\ calls = NoCalls
  /\ users = SeededUsers
  /\ nextUserId = 1
  /\ issued = [d \in 1..(MaxVersions + 1) |-> {}]
  /\ last = NoCall

\* the grants of u1 on c1, the documents the admin and u1 put into the folders,
\* and the writes u1 attempts on any document; MaxPolicyUploads uploads in all
NextPolicy ==
  \/ \E u \in Owners, l \in AccessLevels : GrantAccess(u, "c1", l)
  \/ \E u \in Owners : RevokeAccess(u, "c1")
  \/ /\ nextVersionId <= MaxPolicyUploads
     /\ \E f \in FolderIdArgs, url \in Urls : AdminCreateDocument(f, url)
  \/ /\ nextVersionId <= MaxPolicyUploads
     /\ \E u \in Owners, f \in FolderIdArgs, url \in Urls : UserCreateDocument(u, f, url)
  \/ /\ nextVersionId <= MaxPolicyUploads
     /\ \E u \in Owners, d \in DocIdArgs, url \in Urls :
          UserCreateDocumentVersion(u, d, url)
  \/ \E u \in Owners, d \in DocIdArgs : UserDeleteDocument(u, d)
  \/ \E u \in Owners, v \in VersionIdArgs, d \in DocIdArgs :
       UserDeleteDocumentVersion(u, v, d)

SpecPolicy == InitPolicy /\ [][NextPolicy]_vars

\* The database once, on top of the folders of InitPolicy, u1 has created the
\* personal folder 4 in c2 and the admin has revoked every grant.
InitClone ==
  /\ folders = {Folder(1, "c1", "u1", TRUE), Folder(2, "c1", "admin", FALSE),
                Folder(3, "c1", "u2", TRUE), Folder(4, "c2", "u1", TRUE)}
  /\ documents = {}
  /\ documentVersions = {}
  /\ accessControl = EmptyBag
  /\ categories = Categories
  /\ comments = {}
  /\ nextFolderId = 5
  /\ nextDocId = 1
  /\ nextVersionId = 1
  /\ nextCommentId = 1
  /\ calls = NoCalls
  /\ users = SeededUsers
  /\ nextUserId = 1
  /\ issued = [d \in 1..(MaxVersions + 1) |-> {}]
  /\ last = NoCall

\* the grants of u1, the documents and versions the admin uploads into the
\* shared folder of c1, the comments of u1 and the clones u1 attempts of any
\* document into any folder
NextClone ==
  \/ \E u \in Owners, c \in Categories : GrantAccess(u, c, "read")
  \/ \E u \in Owners, c \in Categories : RevokeAccess(u, c)
  \/ /\ nextVersionId < MaxCloneUploads
     /\ \E url \in Urls : AdminCreateDocument(2, url)
  \/ /\ nextVersionId < MaxCloneUploads
     /\ \E d \in DocIdArgs, url \in Urls : AdminCreateDocumentVersion(d, url)
  \/ \E u \in Owners, d \in DocIdArgs : UserCreateComment(u, d, "x")
  \/ /\ nextVersionId <= MaxCloneUploads
     /\ \E u \in Owners, d \in DocIdArgs, f \in FolderIdArgs : UserCloneDocument(u, d, f)

SpecClone == InitClone /\ [][NextClone]_vars

\* The database once the admin has created the shared folder 1 in c1, u2 has
\* created the personal folder 2 there, and the admin has left u1 with the
\* single grant "read" on c1.
InitReadOnly ==
  /\ folders = {Folder(1, "c1", "admin", FALSE), Folder(2, "c1", "u2", TRUE)}
  /\ documents = {}
  /\ documentVersions = {}
  /\ accessControl = SetToBag({AccessRow("u1", "c1", "read")})
  /\ categories = Categories
  /\ comments = {}
  /\ nextFolderId = 3
  /\ nextDocId = 1
  /\ nextVersionId = 1
  /\ nextCommentId = 1
  /\ calls = NoCalls
  /\ users = SeededUsers
  /\ nextUserId = 1
  /\ issued = [d \in 1..(MaxVersions + 1) |-> {}]
  /\ last = NoCall

\* u1 lists, creates personal folders and uploads; the admin uploads, and
\* switches the level of u1's grant on c1
NextReadOnly ==
  \/ \E u \in Owners, l \in AccessLevels : GrantAccess(u, "c1", l)
  \/ \E u \in Owners, c \in Categories : UserGetFoldersByCategory(u, c)
  \/ \E u \in Owners, f \in FolderIdArgs : UserGetDocumentsByFolder(u, f)
  \/ \E u \in Owners, n \in FolderNames, c \in Categories :
       UserCreatePersonalFolder(u, n, c)
  \/ /\ nextVersionId <= MaxPolicyUploads
     /\ \E u \in Owners, f \in FolderIdArgs, url \in Urls : UserCreateDocument(u, f, url)
  \/ /\ nextVersionId <= MaxPolicyUploads
     /\ \E f \in FolderIdArgs, url \in Urls : AdminCreateDocument(f, url)

SpecReadOnly == InitReadOnly /\ [][NextReadOnly]_vars

\* the grants and comment calls of both regular users in c1 and the folder calls
\* of u1, on the folders of InitPolicy and the documents the admin uploads into
\* them; new comments read "x"
NextComments ==
  \/ \E u \in RegularUsers : GrantAccess(u, "c1", "read")
  \/ \E u \in RegularUsers : RevokeAccess(u, "c1")
  \/ /\ nextVersionId <= MaxCommentedUploads
     /\ \E f \in FolderIdArgs, url \in Urls : AdminCreateDocument(f, url)
  \/ \E u \in RegularUsers, d \in DocIdArgs : UserGetDocumentComments(u, d)
  \/ \E u \in RegularUsers, d \in DocIdArgs : UserCreateComment(u, d, "x")
  \/ \E u \in RegularUsers, i \in CommentIdArgs, c \in Contents :
       UserUpdateComment(u, i, c)
  \/ \E u \in RegularUsers, i \in CommentIdArgs : UserDeleteComment(u, i)
  \/ \E u \in Owners, f \in FolderIdArgs, n \in FolderNames :
       UserUpdatePersonalFolder(u, f, n)
  \/ \E u \in Owners, f \in FolderIdArgs : UserDeletePersonalFolder(u, f)

SpecComments == InitPolicy /\ [][NextComments]_vars

\* The database once the admin has created the shared folders 2 (in c1) and 4
\* (in c2), u1 and u2 have created the personal folders 1 and 3 in c1, and u1 is
\* left with a grant on each category.
InitCascade ==
  /\ folders = SeededFolders
  /\ documents = {}
  /\ documentVersions = {}
  /\ accessControl = SetToBag({AccessRow("u1", "c1", "read"),
                               AccessRow("u1", "c2", "read")})
  /\ categories = Categories
  /\ comments = {}
  /\ nextFolderId = 5
  /\ nextDocId = 1
  /\ nextVersionId = 1
  /\ nextCommentId = 1
  /\ calls = NoCalls
  /\ users = SeededUsers
  /\ nextUserId = 1
  /\ issued = [d \in 1..(MaxVersions + 1) |-> {}]
  /\ last = NoCall

\* the admin uploads documents and versions, u1 comments, and categories and
\* documents are deleted
NextCascade ==
  \/ /\ nextVersionId <= MaxPolicyUploads
     /\ \E f \in FolderIdArgs, url \in Urls : AdminCreateDocument(f, url)
  \/ /\ nextVersionId <= MaxPolicyUploads
     /\ \E d \in DocIdArgs, url \in Urls : AdminCreateDocumentVersion(d, url)
  \/ \E u \in Owners, d \in DocIdArgs : UserCreateComment(u, d, "x")
  \/ \E c \in CategoryArgs : AdminDeleteCategory(c)
  \/ \E d \in DocIdArgs : AdminDeleteDocument(d)
  \/ \E u \in Owners, d \in DocIdArgs : UserDeleteDocument(u, d)

SpecCascade == InitCascade /\ [][NextCascade]_vars

\* grants on c1, the admin's uploads into the folders of InitAccess, and
\* download requests of anyone for any version
NextDownload ==
  \/ \E u \in RegularUsers : GrantAccess(u, "c1", "read")
  \/ \E u \in RegularUsers : RevokeAccess(u, "c1")
  \/ /\ nextVersionId <= MaxPolicyUploads
     /\ \E f \in FolderIdArgs, url \in Urls : AdminCreateDocument(f, url)
  \/ \E session \in Sessions, hasVersionId \in BOOLEAN, v \in VersionIdArgs,
        method \in Methods : SecureDownload(session, hasVersionId, v, method)

SpecDownload == InitAccess /\ [][NextDownload]_vars

\* documents are created in one step; createDocumentVersion requests of u1 and
\* of the admin run statement by statement, two at a time
NextConcurrent ==
  \/ \E u \in Owners, f \in FolderIdArgs, url \in Urls : UserCreateDocument(u, f, url)
  \/ \E s \in Slots, u \in Owners, d \in DocIdArgs, url \in Urls :
       SelectVersions(s, "user", u, d, url)
  \/ \E s \in Slots, d \in DocIdArgs, url \in Urls :
       SelectVersions(s, "admin", "admin", d, url)
  \/ \E s \in Slots : InsertSelectedVersion(s)
  \/ \E d \in DocIdArgs : AdminDeleteDocument(d)

SpecConcurrent == Init /\ [][NextConcurrent]_vars

\* The database of SpecUsers: u1 owns the personal folder 1, the admin has created
\* the shared folder 2 and uploaded document 1 into it, u2 holds a grant on c1.
InitUsers ==
  /\ folders = {Folder(1, "c1", "u1", TRUE), Folder(2, "c1", "admin", FALSE)}
  /\ documents = {[id |-> 1, folderId |-> 2, createdBy |-> "admin",
                   currentVersionId |-> 1, cloudinaryUrl |-> 1]}
  /\ documentVersions = {[id |-> 1, documentId |-> 1, versionNumber |-> 1,
                          fileUrl |-> 1, uploadedBy |-> "admin"]}
  /\ accessControl = SetToBag({AccessRow("u2", "c1", "read")})
  /\ categories = Categories
  /\ comments = {}
  /\ nextFolderId = 3
  /\ nextDocId = 2
  /\ nextVersionId = 2
  /\ nextCommentId = 1
  /\ calls = NoCalls
  /\ users = SeededUsers
  /\ nextUserId = 1
  /\ issued = [d \in 1..(MaxVersions + 1) |-> IF d = 1 THEN {1} ELSE {}]
  /\ last = NoCall

\* the admin "admin" manages users and grants; the users that exist comment
NextUsers ==
  \/ \E e \in Emails, r \in Roles : AdminCreateUser(e, r)
  \/ \E id \in UserIdArgs : AdminDeleteUser("admin", id)
  \/ \E id \in UserIdArgs \ {"admin"} : GrantAccess(id, "c1", "read")
  \/ \E id \in UserIdArgs \ {"admin"} : RevokeAccess(id, "c1")
  \/ \E u \in users : UserCreateComment(u.id, 1, "x")

SpecUsers == InitUsers /\ [][NextUsers]_vars

\* every mutation of the user router, called by u1 with any ids, on the folders
\* of InitPolicy; the admin grants and revokes
NextMutations ==
  \/ \E u \in Owners : GrantAccess(u, "c1", "read")
  \/ \E u \in Owners : RevokeAccess(u, "c1")
  \/ \E u \in Owners : UserCreatePersonalFolder(u, "a", "c1")
  \/ \E u \in Owners, f \in FolderIdArgs : UserUpdatePersonalFolder(u, f, "b")
  \/ \E u \in Owners, f \in FolderIdArgs : UserDeletePersonalFolder(u, f)
  \/ /\ nextVersionId <= MaxMutationUploads
     /\ \E u \in Owners, f \in FolderIdArgs, url \in Urls : UserCreateDocument(u, f, url)
  \/ /\ nextVersionId <= MaxMutationUploads
     /\ \E u \in Owners, d \in DocIdArgs, url \in Urls :
          UserCreateDocumentVersion(u, d, url)
  \/ \E u \in Owners, d \in DocIdArgs : UserDeleteDocument(u, d)
  \/ \E u \in Owners, v \in VersionIdArgs, d \in DocIdArgs :
       UserDeleteDocumentVersion(u, v, d)
  \/ \E u \in Owners, d \in DocIdArgs : UserCreateComment(u, d, "x")
  \/ \E u \in Owners, i \in CommentIdArgs : UserUpdateComment(u, i, "y")
  \/ \E u \in Owners, i \in CommentIdArgs : UserDeleteComment(u, i)
  \/ /\ nextVersionId <= MaxMutationUploads
     /\ \E u \in Owners, d \in DocIdArgs, f \in FolderIdArgs : UserCloneDocument(u, d, f)

SpecMutations == InitPolicy /\ [][NextMutations]_vars

\* the other user of a category: u1 uploads into any folder, the admin grants
\* and revokes on c1, and u2 asks for the versions of any document and clones
\* any document into any folder
Others == {"u2"}

NextPrivacy ==
  \/ \E u \in RegularUsers : GrantAccess(u, "c1", "read")
  \/ \E u \in RegularUsers : RevokeAccess(u, "c1")
  \/ /\ nextVersionId < MaxCloneUploads
     /\ \E u \in Owners, f \in FolderIdArgs, url \in Urls : UserCreateDocument(u, f, url)
  \/ \E u \in Others, d \in DocIdArgs : UserGetDocumentVersions(u, d)
  \/ /\ nextVersionId <= MaxCloneUploads
     /\ \E u \in Others, d \in DocIdArgs, f \in FolderIdArgs : UserCloneDocument(u, d, f)

SpecPrivacy == InitPolicy /\ [][NextPrivacy]_vars

\* u1 uploads documents and versions in one step each; deleteDocumentVersion
\* requests of u1 and of the admin, each for a version and that version's own
\* document, run statement by statement, two at a time
NextConcurrentDelete ==
  \/ \E u \in Owners, f \in FolderIdArgs, url \in Urls : UserCreateDocument(u, f, url)
  \/ \E u \in Owners, d \in DocIdArgs, url \in Urls : UserCreateDocumentVersion(u, d, url)
  \/ \E s \in Slots, u \in Owners, v \in documentVersions :
       CountVersions(s, "user", u, v.id, v.documentId)
  \/ \E s \in Slots, v \in documentVersions :
       CountVersions(s, "admin", "admin", v.id, v.documentId)
  \/ \E s \in Slots : DeleteCountedVersion(s)

SpecConcurrentDelete == Init /\ [][NextConcurrentDelete]_vars

\* the admin's grants to u1 and u2 on c1 run statement by statement, two at a
\* time; revocations run in one step
NextConcurrentGrant ==
  \/ \E s \in Slots, u \in RegularUsers, l \in AccessLevels :
       SelectExisting(s, u, "c1", l)
  \/ \E s \in Slots : WriteGrant(s)
  \/ \E u \in RegularUsers : RevokeAccess(u, "c1")

SpecConcurrentGrant == InitAccess /\ [][NextConcurrentGrant]_vars

\* the requests of SpecDownload, and requests to /api/download for any url
NextDownloads ==
  \/ NextDownload
  \/ \E session \in Sessions, hasUrl \in BOOLEAN, url \in UrlArgs, method \in Methods :
       Download(session, hasUrl, url, method)

SpecDownloads == InitAccess /\ [][NextDownloads]_vars

\* u1, who holds a grant on c1, comments on and replies under the documents
\* the admin uploads into the shared folder, and deletes comments; the admin
\* deletes documents
NextReplies ==
  \/ \E u \in Owners : GrantAccess(u, "c1", "read")
  \/ /\ nextVersionId <= MaxPolicyUploads
     /\ \E url \in Urls : AdminCreateDocument(2, url)
  \/ \E u \in Owners, d \in DocIdArgs, p \in ParentArgs : UserCreateReply(u, d, "x", p)
  \/ \E u \in Owners, i \in CommentIdArgs : UserDeleteComment(u, i)
  \/ \E d \in DocIdArgs : AdminDeleteDocument(d)

SpecReplies == InitPolicy /\ [][NextReplies]_vars

\* the writes of u1 through the later and through the earlier definitions of
\* the user router, the admin's uploads, and the grants of u1 on c1
NextPolicies ==
  \/ \E u \in Owners, l \in AccessLevels : GrantAccess(u, "c1", l)
  \/ \E u \in Owners : RevokeAccess(u, "c1")
  \/ /\ nextVersionId <= MaxPolicyUploads
     /\ \E f \in FolderIdArgs, url \in Urls : AdminCreateDocument(f, url)
  \/ /\ nextVersionId <= MaxPolicyUploads
     /\ \E u \in Owners, f \in FolderIdArgs, url \in Urls : UserCreateDocument(u, f, url)
  \/ /\ nextVersionId <= MaxPolicyUploads
     /\ \E u \in Owners, f \in FolderIdArgs, url \in Urls :
          EarlierUserCreateDocument(u, f, url)
  \/ /\ nextVersionId <= MaxPolicyUploads
     /\ \E u \in Owners, d \in DocIdArgs, url \in Urls :
          UserCreateDocumentVersion(u, d, url)
  \/ /\ nextVersionId <= MaxPolicyUploads
     /\ \E u \in Owners, d \in DocIdArgs, url \in Urls :
          EarlierUserCreateDocumentVersion(u, d, url)
  \/ \E u \in Owners, d \in DocIdArgs : UserDeleteDocument(u, d)
  \/ \E u \in Owners, d \in DocIdArgs : EarlierUserDeleteDocument(u, d)
  \/ \E u \in Owners, v \in VersionIdArgs, d \in DocIdArgs :
       UserDeleteDocumentVersion(u, v, d)
  \/ \E u \in Owners, v \in VersionIdArgs, d \in DocIdArgs :
       EarlierUserDeleteDocumentVersion(u, v, d)

SpecPolicies == InitPolicy /\ [][NextPolicies]_vars

\* ---- properties: documents and versions (Spec) --------------------------------
\* the step is a deleteDocumentVersion call, of either router, with these ids
IsDeleteVersion(versionId, documentId) ==
  \/ AdminDeleteDocumentVersion(versionId, documentId)
  \/ \E u \in Owners : UserDeleteDocumentVersion(u, versionId, documentId)

\* the step is a createDocumentVersion call, of either router, on this document
IsCreateVersion(documentId) ==
  \E url \in Urls :
    \/ AdminCreateDocumentVersion(documentId, url)
    \/ \E u \in Owners : UserCreateDocumentVersion(u, documentId, url)

\* d's currentVersionId names a version of d with the highest number among d's
\* versions, and d's cloudinaryUrl is that version's fileUrl
CurrentIsLatest(d, versions) ==
  \E w \in versions :
    /\ w.id = d.currentVersionId
    /\ w.documentId = d.id
    /\ \A v \in versions : v.documentId = d.id => v.versionNumber <= w.versionNumber
    /\ d.cloudinaryUrl = w.fileUrl

\* C1: in every reachable state every existing document has at least one
\* version whose documentId is that document.
C1_EveryDocumentHasAVersion ==
  \A d \in documents : \E v \in documentVersions : v.documentId = d.id

\* C2: deleteDocumentVersion(v, D) on a document D whose only version is v, by
\* the admin router or by the user router for a caller who passes the ownership
\* rule, ends in BAD_REQUEST and leaves documents and documentVersions unchanged.
C2_OnlyVersionCannotBeDeleted ==
  [][\A d \in documents, v \in documentVersions :
       (VersionsOf(d.id) = {v}
          /\ \/ AdminDeleteDocumentVersion(v.id, d.id)
             \/ \E u \in Owners : /\ DocumentWriteCheck(u, d.id) = "OK"
                                  /\ UserDeleteDocumentVersion(u, v.id, d.id))
       => /\ last'.code = "BAD_REQUEST"
          /\ documents' = documents
          /\ documentVersions' = documentVersions]_vars

\* C2 witness: the only document has a single version and the delete call, which
\* can only have named that version and that document, was just refused.
C2_Witness ==
  /\ last.op = "deleteDocumentVersion"
  /\ last.code = "BAD_REQUEST"
  /\ Cardinality(documents) = 1
  /\ Cardinality(documentVersions) = 1
  /\ \A d \in documents : VersionsOf(d.id) = documentVersions

\* C3: when deleteDocumentVersion succeeds on the version a document D points
\* to as current, D afterwards points to an existing version of D with the
\* highest remaining versionNumber, and D.cloudinaryUrl is that version's fileUrl.
C3_DeletingCurrentRepointsToLatest ==
  [][\A versionId \in VersionIdArgs, documentId \in DocIdArgs :
       (IsDeleteVersion(versionId, documentId) /\ last'.code = "OK")
       => \A d \in documents :
            (d.currentVersionId = versionId)
            => \E e \in documents' : e.id = d.id /\ CurrentIsLatest(e, documentVersions')
    ]_vars

\* C4: in every reachable state each document's currentVersionId names an
\* existing version of that document with the highest versionNumber among its
\* versions, and its cloudinaryUrl equals that version's fileUrl.
C4_CurrentVersionIsLatest ==
  \A d \in documents : CurrentIsLatest(d, documentVersions)

\* C5 as stated: the number a createDocumentVersion call assigns is greater than
\* every number assigned to that document before, and was never assigned to it.
C5_NumbersNeverReused ==
  [][\A documentId \in DocIdArgs :
       (IsCreateVersion(documentId) /\ last'.code = "OK")
       => /\ last'.ret.versionNumber \notin issued[documentId]
          /\ \A n \in issued[documentId] : n < last'.ret.versionNumber]_vars

\* C5 amended: the number a createDocumentVersion call assigns is greater than
\* the number of every version of the document that exists at the time of the
\* call, so a document's versions always carry pairwise distinct numbers; a
\* number assigned before is assigned again only when its version and every
\* version with a higher number are gone.
C5_NumbersAboveExisting ==
  [][\A documentId \in DocIdArgs :
       (IsCreateVersion(documentId) /\ last'.code = "OK")
       => /\ \A v \in VersionsOf(documentId) :
               v.versionNumber < last'.ret.versionNumber
          /\ \A v, w \in documentVersions' :
               (v.documentId = w.documentId /\ v.versionNumber = w.versionNumber)
               => v.id = w.id]_vars

\* C5 witness: the third version row of a document was just created under the
\* number 2, which the document's second version row, deleted since, had carried.
C5_Witness ==
  /\ last.op = "createDocumentVersion"
  /\ last.code = "OK"
  /\ \E d \in documents :
       /\ d.currentVersionId = last.ret.id
       /\ \E v \in VersionsOf(d.id) : v.id = last.ret.id /\ v.versionNumber = 2
       /\ \E v \in VersionsOf(d.id) : v.versionNumber = 1
       /\ issued[d.id] = {1, 2}
       /\ last.ret.id = 3

\* C6: a successful createDocumentVersion on D inserts exactly one version,
\* numbered one above the highest number among D's versions at the time of the
\* call, makes it D's current version and returns its number; a successful
\* deleteDocumentVersion leaves every remaining version row as it was.
C6_MaxPlusOneAndNoRenumbering ==
  [][/\ (last'.op = "createDocumentVersion" /\ last'.code = "OK") =>
        \A documentId \in DocIdArgs :
          IsCreateVersion(documentId)
          => \E w \in documentVersions' :
               /\ documentVersions' = documentVersions \cup {w}
               /\ w \notin documentVersions
               /\ w.documentId = documentId
               /\ \A v \in VersionsOf(documentId) : v.versionNumber < w.versionNumber
               /\ \/ w.versionNumber = 1
                  \/ \E v \in VersionsOf(documentId) :
                       v.versionNumber + 1 = w.versionNumber
               /\ last'.ret.versionNumber = w.versionNumber
               /\ \E e \in documents' :
                    /\ e.id = documentId
                    /\ e.currentVersionId = w.id
                    /\ e.cloudinaryUrl = w.fileUrl
     /\ (last'.op = "deleteDocumentVersion" /\ last'.code = "OK") =>
        \A versionId \in VersionIdArgs, documentId \in DocIdArgs :
          IsDeleteVersion(versionId, documentId)
          => \A v \in documentVersions' :
               \E o \in documentVersions :
                 o.id = v.id /\ o.documentId = v.documentId
                             /\ o.versionNumber = v.versionNumber
    ]_vars

\* C6 witness: a document was left with the single version numbered 2, and a
\* createDocumentVersion call has just returned 3 (max + 1) where count + 1 is 2.
C6_Witness ==
  /\ last.op = "createDocumentVersion"
  /\ last.code = "OK"
  /\ last.ret.versionNumber = 3
  /\ \E d \in documents :
       /\ d.currentVersionId = last.ret.id
       /\ {v.versionNumber : v \in VersionsOf(d.id)} = {2, 3}

\* ---- properties: grants, reads and uploads (SpecAccess) -----------------------
\* the number of access-control rows of the pair
GrantCount(userId, categoryId) ==
  BagCardinality([r \in AccessRows(userId, categoryId) |-> accessControl[r]])

\* C7: the access-control table holds at most one row per (userId, categoryId);
\* grantAccess on a pair that has a row changes the level of that row and adds
\* none, and revokeAccess leaves no row for the pair.  Rows of other pairs stay.
C7_OneGrantPerPair ==
  [][/\ \A u \in RegularUsers, c \in Categories : GrantCount(u, c)' <= 1
     /\ \A u \in RegularUsers, c \in Categories, l \in AccessLevels :
          GrantAccess(u, c, l)
          => /\ AccessRows(u, c)' = {AccessRow(u, c, l)}
             /\ GrantCount(u, c) = 1 => GrantCount(u, c)' = 1
     /\ \A u \in RegularUsers, c \in Categories :
          RevokeAccess(u, c) => AccessRows(u, c)' = {}
     /\ \A u \in RegularUsers, c \in CategoryArgs :
          (RevokeAccess(u, c) \/ \E l \in AccessLevels : GrantAccess(u, c, l))
          => \A r \in BagToSet(accessControl) \cup BagToSet(accessControl') :
               (r.userId # u \/ r.categoryId # c)
               => CopiesIn(r, accessControl') = CopiesIn(r, accessControl)
    ]_vars

\* C7 witness: grantAccess has just taken its update branch and the pair
\* (u1, c1) holds one row, of level "read".
C7_Witness ==
  /\ last.op = "grantAccess"
  /\ last.branch = "updated"
  /\ AccessRows("u1", "c1") = {AccessRow("u1", "c1", "read")}
  /\ GrantCount("u1", "c1") = 1

\* the folder is shared, or it is the caller's own personal folder
SharedOrOwn(u, f) == ~f.isPersonal \/ f.createdBy = u

\* C8 as stated: getFoldersByCategory on C and getDocumentsByFolder on any
\* folder of C succeed if and only if the caller holds a grant on C, and are
\* refused with FORBIDDEN without one.
C8_ReadIffGrant ==
  [][\A u \in RegularUsers :
       /\ \A c \in CategoryArgs :
            UserGetFoldersByCategory(u, c)
            => /\ last'.code = "OK" <=> HasAccess(u, c)
               /\ ~HasAccess(u, c) => last'.code = "FORBIDDEN"
       /\ \A f \in folders :
            UserGetDocumentsByFolder(u, f.id)
            => /\ last'.code = "OK" <=> HasAccess(u, f.categoryId)
               /\ ~HasAccess(u, f.categoryId) => last'.code = "FORBIDDEN"
    ]_vars

\* C8 amended: getFoldersByCategory on C succeeds if and only if the caller
\* holds a grant on C; getDocumentsByFolder on a folder F of C succeeds if and
\* only if the caller holds a grant on C and F is shared or is the caller's own
\* personal folder; every other call is refused with FORBIDDEN.
C8_ReadIffGrantAndVisible ==
  [][\A u \in RegularUsers :
       /\ \A c \in CategoryArgs :
            UserGetFoldersByCategory(u, c)
            => /\ last'.code = "OK" <=> HasAccess(u, c)
               /\ ~HasAccess(u, c) => last'.code = "FORBIDDEN"
       /\ \A f \in folders :
            UserGetDocumentsByFolder(u, f.id)
            => /\ last'.code = "OK" <=> (HasAccess(u, f.categoryId) /\ SharedOrOwn(u, f))
               /\ ~(HasAccess(u, f.categoryId) /\ SharedOrOwn(u, f))
                    => last'.code = "FORBIDDEN"
    ]_vars

\* C8 witness: getDocumentsByFolder has just listed a document while exactly
\* one grant exists.
C8_Witness ==
  /\ last.op = "getDocumentsByFolder"
  /\ last.code = "OK"
  /\ last.ret.ids # {}
  /\ BagCardinality(accessControl) = 1

\* C9: for a caller holding a grant on C, getFoldersByCategory(C) returns the
\* shared folders of C and the caller's own personal folders of C and nothing
\* else; getDocumentsByFolder on another user's personal folder is FORBIDDEN.
C9_FolderListing ==
  [][\A u \in RegularUsers :
       /\ \A c \in Categories :
            (HasAccess(u, c) /\ UserGetFoldersByCategory(u, c))
            => /\ last'.code = "OK"
               /\ \A f \in folders :
                    f.id \in last'.ret.ids
                    <=> /\ f.categoryId = c
                        /\ (f.isPersonal => f.createdBy = u)
               /\ last'.ret.ids \subseteq {f.id : f \in folders}
       /\ \A f \in folders :
            (f.isPersonal /\ f.createdBy # u /\ UserGetDocumentsByFolder(u, f.id))
            => last'.code = "FORBIDDEN"
    ]_vars

\* C9 witness: category c1 holds the personal folders 1 (of u1) and 3 (of u2) and
\* the shared folder 2; a listing has just returned folders 2 and 3, without 1.
C9_Witness ==
  /\ last.op = "getFoldersByCategory"
  /\ last.code = "OK"
  /\ last.ret.ids = {2, 3}

IsGuardedWrite(u, documentId) ==
  \/ \E url \in Urls : UserCreateDocumentVersion(u, documentId, url)
  \/ UserDeleteDocument(u, documentId)
  \/ \E v \in VersionIdArgs : UserDeleteDocumentVersion(u, v, documentId)

C12_CloneRefusals ==
  [][\A u \in Owners, d \in documents, targetFolderId \in FolderIdArgs :
       UserCloneDocument(u, d.id, targetFolderId)
       => LET source == CHOOSE f \in folders : f.id = d.folderId
              own == {f \in folders : /\ f.id = targetFolderId
                                      /\ f.isPersonal
                                      /\ f.createdBy = u}
              refused == /\ last'.code = "FORBIDDEN"
                         /\ documents' = documents
                         /\ documentVersions' = documentVersions
          IN  /\ own = {} => refused
              /\ ~HasAccess(u, source.categoryId) => refused
              /\ (\E f \in own : ~HasAccess(u, f.categoryId)) => refused
    ]_vars

\* C12 witness: every document is in the shared folder of c1, u1 holds a grant
\* on c1 and none on c2, where u1 owns the personal folder 4, and a clone has
\* just been refused with FORBIDDEN: on account of its target folder.
C12_Witness ==
  /\ last.op = "cloneDocument"
  /\ last.code = "FORBIDDEN"
  /\ documents # {}
  /\ \A d \in documents : d.folderId = 2
  /\ HasAccess("u1", "c1")
  /\ ~HasAccess("u1", "c2")

\* C13: a successful cloneDocument of S into folder F by U adds exactly one
\* document, in F and created by U, and exactly one version, of that document
\* and numbered 1; the version's fileUrl and the document's cloudinaryUrl are
\* the fileUrl of the version S.currentVersionId names; every document, version
\* and comment that existed is unchanged.
C13_CloneCopiesCurrentVersionOnly ==
  [][\A u \in Owners, S \in documents, targetFolderId \in FolderIdArgs :
       (UserCloneDocument(u, S.id, targetFolderId) /\ last'.code = "OK")
       => \E e \in documents', w \in documentVersions' :
            /\ documents' = documents \cup {e}
            /\ e \notin documents
            /\ documentVersions' = documentVersions \cup {w}
            /\ w \notin documentVersions
            /\ comments' = comments
            /\ e.id = last'.ret.id
            /\ e.folderId = targetFolderId
            /\ e.createdBy = u
            /\ e.currentVersionId = w.id
            /\ {v \in documentVersions' : v.documentId = e.id} = {w}
            /\ w.versionNumber = 1
            /\ \E cur \in documentVersions :
                 /\ cur.id = S.currentVersionId
                 /\ w.fileUrl = cur.fileUrl
                 /\ e.cloudinaryUrl = cur.fileUrl
    ]_vars

\* C13 witness: a document with the versions 1 and 2 and a comment has just been
\* cloned into folder 4; the clone has one version, numbered 1, with the file of
\* the source's version 2.
C13_Witness ==
  /\ last.op = "cloneDocument"
  /\ last.code = "OK"
  /\ \E S, e \in documents :
       /\ e.id = last.ret.id
       /\ e.folderId = 4
       /\ {v.versionNumber : v \in VersionsOf(S.id)} = {1, 2}
       /\ \E c \in comments : c.documentId = S.id
       /\ \E cur \in VersionsOf(S.id), w \in VersionsOf(e.id) :
            /\ cur.versionNumber = 2
            /\ VersionsOf(e.id) = {w}
            /\ w.versionNumber = 1
            /\ w.fileUrl = cur.fileUrl
            /\ e.cloudinaryUrl = cur.fileUrl

\* ---- properties: read-only grants (SpecReadOnly) --------------------------------
\* the caller's only grant on the category is "read"
ReadOnly(u, c) == AccessRows(u, c) = {AccessRow(u, c, "read")}

C15_ReadOnlyUserChangesNothing ==
  [][\A c \in Categories :
       (ReadOnly("u1", c) /\ last'.router = "user")
       => LET inC(fs) == {f \in fs : f.categoryId = c}
              docsInC(ds, fs) == {d \in ds : \E f \in inC(fs) : d.folderId = f.id}
              versionsInC(vs, ds, fs) ==
                {v \in vs : \E d \in docsInC(ds, fs) : v.documentId = d.id}
          IN  /\ inC(folders') = inC(folders)
              /\ docsInC(documents', folders') = docsInC(documents, folders)
              /\ versionsInC(documentVersions', documents', folders')
                   = versionsInC(documentVersions, documents, folders)
    ]_vars

\* ---- properties: grants and comments (SpecComments) ------------------------------
\* the category a document is in
CategoryOf(d) == (CHOOSE f \in folders : f.id = d.folderId).categoryId

\* the call was refused with FORBIDDEN and no table changed
Forbidden == last'.code = "FORBIDDEN" /\ UNCHANGED tables

\* C16: for a regular user U who holds no grant on category C, every call of
\* the user router on a folder of C, on a document in such a folder or on a
\* comment of such a document is refused with FORBIDDEN and changes no table;
\* this includes updatePersonalFolder and deletePersonalFolder on U's own
\* personal folders and updateComment and deleteComment on U's own comments.
C16_NoGrantNoOperation ==
  [][\A u \in RegularUsers, c \in Categories :
       ~HasAccess(u, c)
       => /\ \A f \in folders :
               (/\ f.categoryId = c
                /\ u \in Owners
                /\ \/ \E n \in FolderNames : UserUpdatePersonalFolder(u, f.id, n)
                   \/ UserDeletePersonalFolder(u, f.id))
               => Forbidden
          /\ \A d \in documents :
               (/\ CategoryOf(d) = c
                /\ \/ UserGetDocumentComments(u, d.id)
                   \/ \E x \in Contents : UserCreateComment(u, d.id, x))
               => Forbidden
          /\ \A m \in comments, d \in documents :
               (/\ m.documentId = d.id
                /\ CategoryOf(d) = c
                /\ \/ \E x \in Contents : UserUpdateComment(u, m.id, x)
                   \/ UserDeleteComment(u, m.id))
               => Forbidden
    ]_vars

\* C17: updateComment and deleteComment by U on comment m take effect only if
\* m.authorId = U, and are otherwise refused with FORBIDDEN, the comments
\* unchanged; a successful updateComment replaces the content and sets isEdited;
\* createComment and getDocumentComments on document D succeed only if U holds
\* a grant on the category of D's folder and the folder is not a personal
\* folder of another user, and are otherwise refused with FORBIDDEN.
C17_CommentsAuthorAndVisibility ==
  [][/\ last'.op = "updateComment" =>
        \A u \in RegularUsers, m \in comments, x \in Contents :
          UserUpdateComment(u, m.id, x)
          => IF m.authorId = u
               THEN /\ last'.code = "OK"
                    /\ comments' = (comments \ {m}) \cup
                         {[m EXCEPT !.content = x, !.isEdited = TRUE]}
               ELSE /\ last'.code = "FORBIDDEN"
                    /\ comments' = comments
     /\ last'.op = "deleteComment" =>
        \A u \in RegularUsers, m \in comments :
          UserDeleteComment(u, m.id)
          => IF m.authorId = u
               THEN /\ last'.code = "OK"
                    /\ comments' = comments \ {m}
               ELSE /\ last'.code = "FORBIDDEN"
                    /\ comments' = comments
     /\ last'.op \in {"getDocumentComments", "createComment"} =>
        \A u \in RegularUsers, d \in documents :
          (\/ UserGetDocumentComments(u, d.id)
           \/ \E x \in Contents : UserCreateComment(u, d.id, x))
          => LET f == CHOOSE g \in folders : g.id = d.folderId
                 visible == /\ HasAccess(u, f.categoryId)
                            /\ ~(f.isPersonal /\ f.createdBy # u)
             IN  /\ last'.code = "OK" <=> visible
                 /\ ~visible => (last'.code = "FORBIDDEN" /\ comments' = comments)
    ]_vars

\* C17 witness: a comment, created with the text "x", reads "y" and is marked
\* edited after the updateComment call that has just succeeded.
C17_Witness ==
  /\ last.op = "updateComment"
  /\ last.code = "OK"
  /\ \E m \in comments : m.content = "y" /\ m.isEdited

\* ---- properties: cascading deletes (SpecCascade) ----------------------------------
\* C18: after deleteCategory(C) no folder of C, no document in such a folder, no
\* version or comment of such a document and no grant on C is left, and the rows
\* of the other categories are as they were; after a successful deleteDocument(D)
\* no version and no comment of D is left, and the rows of the other documents,
\* and every folder and grant, are as they were.
C18_DeletesCascade ==
  [][/\ last'.op = "deleteCategory" =>
        \A c \in CategoryArgs :
          AdminDeleteCategory(c)
          => LET docsOfC == {d \in documents : CategoryOf(d) = c}
             IN  /\ folders' = {f \in folders : f.categoryId # c}
                 /\ documents' = documents \ docsOfC
                 /\ documentVersions' = {v \in documentVersions :
                                           \A d \in docsOfC : v.documentId # d.id}
                 /\ comments' = {m \in comments :
                                   \A d \in docsOfC : m.documentId # d.id}
                 /\ \A f \in folders' : f.categoryId # c
                 /\ \A d \in documents' : \E f \in folders' : f.id = d.folderId
                 /\ \A v \in documentVersions' : \E d \in documents' : d.id = v.documentId
                 /\ \A m \in comments' : \E d \in documents' : d.id = m.documentId
                 /\ \A r \in BagToSet(accessControl') : r.categoryId # c
                 /\ \A r \in BagToSet(accessControl) :
                      r.categoryId # c
                      => CopiesIn(r, accessControl') = CopiesIn(r, accessControl)
     /\ (last'.op = "deleteDocument" /\ last'.code = "OK") =>
        \A documentId \in DocIdArgs :
          (\/ AdminDeleteDocument(documentId)
           \/ \E u \in Owners : UserDeleteDocument(u, documentId))
          => /\ documents' = {d \in documents : d.id # documentId}
             /\ documentVersions' = {v \in documentVersions : v.documentId # documentId}
             /\ comments' = {m \in comments : m.documentId # documentId}
             /\ \A v \in documentVersions' : v.documentId # documentId
             /\ \A m \in comments' : m.documentId # documentId
             /\ folders' = folders
             /\ accessControl' = accessControl
    ]_vars

\* C18 witness: deleteCategory has just removed c1 with its folders, its grant
\* and its commented document, and left c2 with its folder, grant and document.
C18_Witness ==
  /\ last.op = "deleteCategory"
  /\ categories = {"c2"}
  /\ {f.id : f \in folders} = {4}
  /\ nextDocId = 3
  /\ nextCommentId = 2
  /\ comments = {}
  /\ \E d \in documents : documents = {d} /\ d.folderId = 4 /\ VersionsOf(d.id) # {}
  /\ BagToSet(accessControl) = {AccessRow("u1", "c2", "read")}

\* ---- properties: secure download (SpecDownload) -----------------------------------
\* C19: the secure download endpoint answers 401 without a session, else 400
\* without a versionId, else 404 when the version does not resolve, else, for
\* a caller who is not system_admin, 403 unless the caller holds a grant on the
\* category of the version's folder and the folder is not a personal folder of
\* someone else; none of these answers is preceded by a fetch of the file, and
\* a system_admin passes the grant and ownership checks.
C19_DownloadChecksInOrder ==
  [][last'.router = "download-secure" =>
     \A session \in Sessions, hasVersionId \in BOOLEAN, v \in VersionIdArgs,
        method \in Methods :
       SecureDownload(session, hasVersionId, v, method)
       => LET resolved == \E w \in documentVersions, d \in documents, f \in folders :
                            w.id = v /\ d.id = w.documentId /\ f.id = d.folderId
              f == CHOOSE g \in folders :
                     \E w \in documentVersions, d \in documents :
                       w.id = v /\ d.id = w.documentId /\ g.id = d.folderId
              denied == /\ session # "admin"
                        /\ \/ ~HasAccess(session, f.categoryId)
                           \/ f.isPersonal /\ f.createdBy # session
              refusal == IF session = "anonymous" THEN "401"
                         ELSE IF ~hasVersionId THEN "400"
                         ELSE IF ~resolved THEN "404"
                         ELSE IF denied THEN "403"
                         ELSE "none"
          IN  /\ refusal # "none" => (last'.code = refusal /\ last'.branch # "fetched")
              /\ last'.branch = "fetched" => refusal = "none"
              /\ (refusal = "none" /\ method = "GET") => last'.branch = "fetched"
    ]_vars

\* C19 witness: the one document is in u2's personal folder 3, both regular
\* users hold a grant on c1, and a download request has just been answered 403
\* without a fetch: u1's.
C19_Witness ==
  /\ last.router = "download-secure"
  /\ last.code = "403"
  /\ last.branch = "-"
  /\ HasAccess("u1", "c1") /\ HasAccess("u2", "c1")
  /\ \E d \in documents : documents = {d} /\ d.folderId = 3

\* ---- properties: interleaved uploads (SpecConcurrent) -----------------------------
\* the versions of each document carry pairwise distinct numbers
DistinctNumbers(versions) ==
  \A v, w \in versions :
    (v.documentId = w.documentId /\ v.versionNumber = w.versionNumber) => v.id = w.id

\* C20: a createDocumentVersion request inserts the number one above the
\* highest among the versions it selected.  Two requests on one document that
\* both selected before either inserted, and so selected the same versions,
\* insert two version rows with the same number.  A request that inserts before
\* any other insert has followed its select keeps the numbers of every document
\* pairwise distinct.
C20_InterleavedUploadsShareANumber ==
  [][\A s \in Slots :
       (InsertSelectedVersion(s) /\ last'.code = "OK")
       => LET call == calls[s]
              n == last'.ret.versionNumber
          IN  /\ \A v \in call.existingVersions : v.versionNumber < n
              /\ \/ n = 1
                 \/ \E v \in call.existingVersions : v.versionNumber + 1 = n
              /\ \A o \in Slots \ {s} :
                   (/\ calls[o].state = "done"
                    /\ calls[o].documentId = call.documentId
                    /\ calls[o].existingVersions = call.existingVersions
                    /\ \E w \in documentVersions : w.id = calls[o].id)
                   => /\ calls[o].versionNumber = n
                      /\ \E v, w \in documentVersions' :
                           /\ v.id = calls[o].id /\ w.id = last'.ret.id
                           /\ v.id # w.id
                           /\ v.documentId = w.documentId
                           /\ v.versionNumber = n /\ w.versionNumber = n
              /\ (/\ call.existingVersions = VersionsOf(call.documentId)
                  /\ DistinctNumbers(documentVersions))
                   => DistinctNumbers(documentVersions')
    ]_vars

\* C20 witness: both requests have answered, and the document holds two
\* versions numbered 2.
C20_Witness ==
  /\ \A s \in Slots : calls[s].state = "done"
  /\ calls["p"].existingVersions = calls["q"].existingVersions
  /\ \E v, w \in documentVersions :
       /\ v.id = calls["p"].id /\ w.id = calls["q"].id
       /\ v.documentId = w.documentId
       /\ v.versionNumber = 2 /\ w.versionNumber = 2

\* ---- properties: users (SpecUsers) ------------------------------------------------
\* C21: createUser with an email that a user row already carries is answered
\* with CONFLICT and leaves the users table as it was, and no two user rows ever
\* carry the same email.
C21_DuplicateEmailIsConflict ==
  [][/\ \A e \in Emails, r \in Roles :
          (AdminCreateUser(e, r) /\ \E u \in users : u.email = e)
          => (last'.code = "CONFLICT" /\ users' = users)
     /\ \A u, w \in users' : u.email = w.email => u.id = w.id
    ]_vars

\* C21 witness: a created user exists and a createUser call has just been
\* answered with CONFLICT.
C21_Witness ==
  /\ last.op = "createUser" /\ last.code = "CONFLICT"
  /\ \E u \in users : u.id = NewUserId(1)

\* C30: deleteUser with the caller's own id is answered with BAD_REQUEST and
\* leaves the users table as it was; with any other id it removes that user's
\* row, grants and comments.
C30_DeleteUserRemovesUserGrantsAndComments ==
  [][\A id \in UserIdArgs :
       (last'.op = "deleteUser" /\ AdminDeleteUser("admin", id))
       => IF id = "admin"
            THEN last'.code = "BAD_REQUEST" /\ users' = users
            ELSE /\ last'.code = "OK"
                 /\ users' = {u \in users : u.id # id}
                 /\ \A a \in BagToSet(accessControl') : a.userId # id
                 /\ \A c \in comments' : c.authorId # id
    ]_vars

\* ---- properties: refused mutations (SpecMutations) -----------------------------------
UserMutations ==
  {"createPersonalFolder", "updatePersonalFolder", "deletePersonalFolder",
   "createDocument", "createDocumentVersion", "deleteDocument",
   "deleteDocumentVersion", "createComment", "updateComment", "deleteComment",
   "cloneDocument"}

\* C22: a mutation of the user router that is answered with NOT_FOUND,
\* FORBIDDEN or BAD_REQUEST leaves every table as it was.
C22_RefusedMutationsWriteNothing ==
  [][(/\ last'.router = "user"
      /\ last'.op \in UserMutations
      /\ last'.code \in {"NOT_FOUND", "FORBIDDEN", "BAD_REQUEST"})
     => UNCHANGED tables]_vars

\* C22 witness: deleteDocumentVersion has just been refused with BAD_REQUEST for
\* the only version of a document of u1, which is still there.
C22_Witness ==
  /\ last.router = "user" /\ last.op = "deleteDocumentVersion"
  /\ last.code = "BAD_REQUEST"
  /\ \E d \in documents :
       /\ d.createdBy = "u1"
       /\ Cardinality(VersionsOf(d.id)) = 1

\* ---- properties: whose versions a user deletes (Spec) ---------------------------------
\* C23: a successful deleteDocumentVersion(versionId, documentId) of a user
\* deletes only a version of the document documentId, the one the checks were
\* made on, and so only a version of a document the user created and that lies
\* in a personal folder.
C23_DeletesOnlyVersionsOfCheckedDocument ==
  [][\A u \in Owners, v \in VersionIdArgs, d \in DocIdArgs :
       (/\ last'.router = "user" /\ last'.op = "deleteDocumentVersion"
        /\ last'.code = "OK"
        /\ UserDeleteDocumentVersion(u, v, d))
       => \A x \in documentVersions \ documentVersions' :
            /\ x.documentId = d
            /\ \E doc \in documents, f \in folders :
                 /\ doc.id = x.documentId /\ f.id = doc.folderId
                 /\ doc.createdBy = u /\ f.isPersonal
    ]_vars

\* ---- properties: personal folders of other users (SpecPrivacy) --------------------------
\* C24: for a document in a personal folder that another user created,
\* getDocumentVersions returns no version to u2 and cloneDocument makes no copy
\* for u2, whether or not u2 holds a grant on the folder's category.
C24_OthersPersonalDocumentsStayPrivate ==
  [][\A u \in Others, d \in documents :
       (\E f \in folders : f.id = d.folderId /\ f.isPersonal /\ f.createdBy # u)
       => /\ (last'.op = "getDocumentVersions" /\ UserGetDocumentVersions(u, d.id))
               => (last'.code # "OK" /\ last'.ret.ids = {})
          /\ \A t \in FolderIdArgs :
               (last'.op = "cloneDocument" /\ UserCloneDocument(u, d.id, t))
               => (last'.code # "OK" /\ documents' = documents)
    ]_vars

\* ---- properties: interleaved deletes (SpecConcurrentDelete) ---------------------------
\* C25: when two deleteDocumentVersion requests for the two versions of a
\* document with exactly two versions have both counted before either deletes,
\* the document still has a version once both have deleted, and its
\* currentVersionId is the id of one of its versions.
C25_InterleavedDeletesKeepAVersion ==
  [][\A s \in Slots, o \in Slots :
       (/\ DeleteCountedVersion(s)
        /\ calls[o].state = "deleted"
        /\ calls[o].documentId = calls[s].documentId
        /\ calls[o].versionId # calls[s].versionId
        /\ calls[o].allVersions = calls[s].allVersions
        /\ Cardinality(calls[s].allVersions) = 2)
       => \A d \in documents' :
            d.id = calls[s].documentId
            => \E v \in documentVersions' :
                 v.documentId = d.id /\ v.id = d.currentVersionId
    ]_vars

\* ---- properties: interleaved grants (SpecConcurrentGrant) -----------------------------
\* C26: when two grantAccess requests for the same user and category have both
\* run their select before either writes, the table holds at most one row for
\* the pair once both have written.
C26_InterleavedGrantsLeaveOneRow ==
  [][\A s \in Slots, o \in Slots :
       (/\ WriteGrant(s)
        /\ o # s
        /\ calls[o].state = "granted"
        /\ calls[o].userId = calls[s].userId
        /\ calls[o].categoryId = calls[s].categoryId
        /\ calls[o].existing = calls[s].existing)
       => LET pair == {r \in BagToSet(accessControl') :
                        r.userId = calls[s].userId /\ r.categoryId = calls[s].categoryId}
          IN  /\ Cardinality(pair) <= 1
              /\ \A r \in pair : CopiesIn(r, accessControl') = 1
    ]_vars

\* ---- properties: both download endpoints (SpecDownloads) ------------------------------
\* the caller holds a grant on the category of the version's folder, and created
\* the folder when it is personal
MayDownload(u, v) ==
  \E d \in documents, f \in folders :
    /\ d.id = v.documentId /\ f.id = d.folderId
    /\ HasAccess(u, f.categoryId)
    /\ f.isPersonal => f.createdBy = u

\* C27: /api/download-secure, asked for a version by id, and /api/download,
\* asked for a stored version's fileUrl, send the bytes of the version to a
\* regular user only if the user holds a grant on the category of the version's
\* folder and, when the folder is personal, created it.
C27_DownloadsOnlyWithGrant ==
  [][\A u \in RegularUsers, v \in documentVersions :
       (/\ last'.branch = "fetched" /\ last'.code = "200"
        /\ \/ SecureDownload(u, TRUE, v.id, "GET")
           \/ Download(u, TRUE, v.fileUrl, "GET"))
       => MayDownload(u, v)
    ]_vars

\* ---- properties: replies (SpecReplies) --------------------------------------------------
\* C28: every comment with a parentCommentId refers to a comment that exists and
\* belongs to the same document.
C28_ParentCommentExistsOnSameDocument ==
  \A c \in comments :
    c.parentCommentId # NoParent
    => \E p \in comments : p.id = c.parentCommentId /\ p.documentId = c.documentId

\* ---- properties: the two policies (SpecPolicies) ----------------------------------------
\* the folder is shared and the user's grant on its category is "full"
FullOnShared(u, folderId) ==
  \E f \in folders :
    /\ f.id = folderId /\ ~f.isPersonal
    /\ AccessRows(u, f.categoryId) = {AccessRow(u, f.categoryId, "full")}

\* C29: every step in which the later createDocument, createDocumentVersion,
\* deleteDocument or deleteDocumentVersion accepts a request of a regular user
\* is a step of the earlier definition for the same request: it accepts too and
\* writes the same.  The earlier definitions moreover let a user with "full"
\* access write in a shared folder.
C29_LaterPolicyRefinesEarlier ==
  [][(last'.router = "user" /\ last'.code = "OK") =>
     /\ \A u \in Owners, f \in FolderIdArgs, url \in Urls :
          /\ UserCreateDocument(u, f, url) => EarlierUserCreateDocument(u, f, url)
          /\ (FullOnShared(u, f) /\ EarlierUserCreateDocument(u, f, url))
               => \E d \in documents' \ documents : d.folderId = f /\ d.createdBy = u
     /\ \A u \in Owners, d \in DocIdArgs, url \in Urls :
          UserCreateDocumentVersion(u, d, url)
          => EarlierUserCreateDocumentVersion(u, d, url)
     /\ \A u \in Owners, d \in DocIdArgs :
          UserDeleteDocument(u, d) => EarlierUserDeleteDocument(u, d)
     /\ \A u \in Owners, v \in VersionIdArgs, d \in DocIdArgs :
          UserDeleteDocumentVersion(u, v, d)
          => EarlierUserDeleteDocumentVersion(u, v, d)
     /\ \A u \in Owners, x \in documents :
          FullOnShared(u, x.folderId)
          => /\ EarlierDocumentWriteCheck(u, x.id) = "OK"
             /\ \A url \in Urls :
                  (last'.op = "createDocumentVersion"
                   /\ EarlierUserCreateDocumentVersion(u, x.id, url))
                  => \E v \in documentVersions' \ documentVersions :
                       v.documentId = x.id /\ v.uploadedBy = u
             /\ (last'.op = "deleteDocument" /\ EarlierUserDeleteDocument(u, x.id))
                  => x \notin documents'
    ]_vars

\* C29 witness: u1, with "full" access to c1, has just added a version to a
\* document of the admin in the shared folder 2, which only the earlier
\* definition accepts.
C29_Witness ==
  /\ last.router = "user" /\ last.op = "createDocumentVersion" /\ last.code = "OK"
  /\ AccessRows("u1", "c1") = {AccessRow("u1", "c1", "full")}
  /\ \E d \in documents, v \in documentVersions :
       /\ d.folderId = 2 /\ d.createdBy = "admin"
       /\ v.documentId = d.id /\ v.uploadedBy = "u1" /\ v.id = last.ret.id

====
